---------------------------- MODULE Spec2Model ----------------------------
(***************************************************************************)
(* Swick card game: the per-room round engine of                           *)
(* backend/src/rooms/GameRoom.ts (the second, current GameRoom class of    *)
(* that file, lines 1309-4567), its schema (Card, Deck, Hand, Player,      *)
(* GameState) and game.config.                                             *)
(***************************************************************************)
EXTENDS Integers, Sequences, FiniteSets, TLC

(***************************************************************************)
(* Cards.  A card is a number 0..31: suit index * 8 + value index, in the  *)
(* order Deck.reset() creates them.                                        *)
(***************************************************************************)
availableSuits == <<"S", "H", "C", "D">>
availableValues == <<"7", "8", "9", "10", "J", "Q", "K", "A">>

Cards == 0..31
NoCard == -1

CardSuit(c) == availableSuits[(c \div 8) + 1]
CardValue(c) == availableValues[(c % 8) + 1]
MkCard(s, v) ==
  CHOOSE c \in Cards : CardSuit(c) = s /\ CardValue(c) = v

Range(s) == {s[i] : i \in 1..Len(s)}

\* cardBeats' local getValue: rank of a value string, 0 for anything else
getValue(v) ==
  CASE v = "A" -> 14
    [] v = "K" -> 13
    [] v = "Q" -> 12
    [] v = "J" -> 11
    [] v = "10" -> 10
    [] v = "9" -> 9
    [] v = "8" -> 8
    [] v = "7" -> 7
    [] OTHER -> 0

cardBeats(card1, card2) ==
  getValue(CardValue(card1)) > getValue(CardValue(card2))

(***************************************************************************)
(* A played card of a trick: [playerId, card].                             *)
(***************************************************************************)
\* getHighestCardOfSuit: index (1-based) of the highest card of `suit' in
\* the trick, 0 when the trick holds no card of that suit.  The scan keeps
\* the first of equally high cards.
RECURSIVE HighestScan(_, _, _, _)
HighestScan(trick, suit, i, best) ==
  IF i > Len(trick) THEN best
  ELSE IF CardSuit(trick[i].card) = suit
          /\ (best = 0 \/ cardBeats(trick[i].card, trick[best].card))
       THEN HighestScan(trick, suit, i + 1, i)
       ELSE HighestScan(trick, suit, i + 1, best)

getHighestCardOfSuit(trick, suit) == HighestScan(trick, suit, 1, 0)

\* isValidCardPlay, with what it reads from the room passed in:
\* hand = player.hand.cards, trick = state.currentTrick,
\* trickNo = state.currentTrickNumber, trump = state.trumpSuit,
\* first = isFirstPlayerAfterDealer(player.sessionId).
MutValidNoBeat(hand, cardToPlay, trick, trickNo, trump, first) ==
  LET hasAceOfTrump ==
        \E i \in 1..Len(hand) :
          CardValue(hand[i]) = "A" /\ CardSuit(hand[i]) = trump
      isAce == CardValue(cardToPlay) = "A" /\ CardSuit(cardToPlay) = trump
  IN IF Len(trick) = 0 /\ trickNo = 1 /\ first /\ hasAceOfTrump /\ ~isAce
     THEN FALSE
     ELSE IF Len(trick) = 0 THEN TRUE
     ELSE
       LET leadSuit == CardSuit(trick[1].card)
           hasLeadSuit == \E i \in 1..Len(hand) : CardSuit(hand[i]) = leadSuit
           hasTrump == \E i \in 1..Len(hand) : CardSuit(hand[i]) = trump
       IN IF hasLeadSuit
          THEN CardSuit(cardToPlay) = leadSuit
          ELSE ~(hasTrump /\ CardSuit(cardToPlay) # trump)

isValidCardPlayOf(hand, cardToPlay, trick, trickNo, trump, first) ==
  LET hasAceOfTrump ==
        \E i \in 1..Len(hand) :
          CardValue(hand[i]) = "A" /\ CardSuit(hand[i]) = trump
      isAce == CardValue(cardToPlay) = "A" /\ CardSuit(cardToPlay) = trump
  IN IF Len(trick) = 0 /\ trickNo = 1 /\ first /\ hasAceOfTrump /\ ~isAce
     THEN FALSE
     ELSE IF Len(trick) = 0 THEN TRUE
     ELSE
       LET leadSuit == CardSuit(trick[1].card)
           hasLeadSuit == \E i \in 1..Len(hand) : CardSuit(hand[i]) = leadSuit
           hi == getHighestCardOfSuit(trick, leadSuit)
           canBeat ==
             \E i \in 1..Len(hand) :
               /\ CardSuit(hand[i]) = leadSuit
               /\ cardBeats(hand[i], trick[hi].card)
           hasTrump == \E i \in 1..Len(hand) : CardSuit(hand[i]) = trump
       IN IF hasLeadSuit
          THEN IF CardSuit(cardToPlay) # leadSuit THEN FALSE
               ELSE IF hi # 0 /\ ~cardBeats(cardToPlay, trick[hi].card)
                       /\ canBeat
                    THEN FALSE
                    ELSE TRUE
          ELSE ~(hasTrump /\ CardSuit(cardToPlay) # trump)

\* determineTrickWinner: index (1-based) of the winning play, 0 for an
\* empty trick (the code returns null).
RECURSIVE WinnerScan(_, _, _, _)
WinnerScan(trick, trump, i, winner) ==
  IF i > Len(trick) THEN winner
  ELSE
    LET card == trick[i].card
        w == trick[winner].card
        leadSuit == CardSuit(trick[1].card)
        next ==
          IF CardSuit(card) = trump /\ CardSuit(w) # trump THEN i
          ELSE IF CardSuit(card) = trump /\ CardSuit(w) = trump
               THEN (IF cardBeats(card, w) THEN i ELSE winner)
          ELSE IF CardSuit(card) = leadSuit /\ CardSuit(w) = leadSuit
               THEN (IF cardBeats(card, w) THEN i ELSE winner)
          ELSE winner
    IN WinnerScan(trick, trump, i + 1, next)

MutWinnerFirstTrump(trick, trump) ==
  IF Len(trick) = 0 THEN 0
  ELSE IF \E i \in 1..Len(trick) : CardSuit(trick[i].card) = trump
       THEN CHOOSE i \in 1..Len(trick) :
              /\ CardSuit(trick[i].card) = trump
              /\ \A j \in 1..(i - 1) : CardSuit(trick[j].card) # trump
       ELSE WinnerScan(trick, trump, 1, 1)

determineTrickWinner(trick, trump) ==
  IF Len(trick) = 0 THEN 0 ELSE WinnerScan(trick, trump, 1, 1)

\* checkPlayerForSpecialHand: "three-aces", "three-sevens", "akq-trump" or
\* "" (null) for the cards of one hand.
MutSpecialNoSuitCheck(cards, trump) ==
  IF Len(cards) # 3 THEN ""
  ELSE
    LET values == {CardValue(cards[i]) : i \in 1..3}
    IN IF values = {"A"} THEN "three-aces"
       ELSE IF values = {"7"} THEN "three-sevens"
       ELSE IF trump # "" /\ values = {"A", "K", "Q"} THEN "akq-trump"
       ELSE ""

checkPlayerForSpecialHand(cards, trump) ==
  IF Len(cards) # 3 THEN ""
  ELSE
    LET values == [i \in 1..3 |-> CardValue(cards[i])]
        suits == [i \in 1..3 |-> CardSuit(cards[i])]
        includes(s, x) == \E i \in 1..Len(s) : s[i] = x
        hasAce == includes(values, "A") /\ includes(suits, trump)
        hasKing == includes(values, "K") /\ includes(suits, trump)
        hasQueen == includes(values, "Q") /\ includes(suits, trump)
        trumpCards == {i \in 1..3 : CardSuit(cards[i]) = trump}
    IN IF \A i \in 1..3 : values[i] = "A" THEN "three-aces"
       ELSE IF \A i \in 1..3 : values[i] = "7" THEN "three-sevens"
       ELSE IF trump # "" /\ Cardinality(trumpCards) = 3
               /\ hasAce /\ hasKing /\ hasQueen
            THEN "akq-trump"
       ELSE ""

SpecialPriority(type) ==
  CASE type = "three-aces" -> 1
    [] type = "three-sevens" -> 2
    [] type = "akq-trump" -> 3
    [] OTHER -> 0


(***************************************************************************)
(* game.config                                                             *)
(***************************************************************************)
minPlayers == 3
initialPlayerMoney == 10000
initialPlayerBet == 3
cardsPerHand == 3
dealerExtraAnte == 3
allowedAntes == {3, 6, 9, 12, 15}

(***************************************************************************)
(* Bounds of the model.                                                    *)
(***************************************************************************)
\* hands that may be started in one behaviour
MaxHands == 1
\* shuffles Deck.reset() may produce (the first NumDecks of Shuffle)
NumDecks == 3
\* consented leaves and disconnects in one behaviour
MaxLeaves == 1
\* copies of one delayed callback that may be pending at once
MaxPend == 2
\* the highest ante a dealer chooses
MaxAnte == 3
\* the highest hand position a human selects for discarding
MaxSelectIndex == 1
\* players that may have autoReady switched on at once
MaxAutoReady == 1

Ids == 1..minPlayers
NoId == 0

(***************************************************************************)
(* The room.  GameState fields keep their names; `order' is the insertion  *)
(* order of the players map, `pl' the Player objects (an object outlives   *)
(* its removal from the map: closures and reconnection keep it).           *)
(* `pend' holds the pending clock.setTimeout callbacks and delay()        *)
(* continuations, in the order they were scheduled.                        *)
(* `iter' is roundPlayersIdIterator.  `discards' (the cards discarded this   *)
(* hand, which the code drops), `hands', `leaves' and `settled' (runs of    *)
(* the settlement) are history variables of the model.  `env' holds what    *)
(* the clients of this run may send: the shuffles dealt, how many players   *)
(* leave, which cards are selected, who switches autoReady on.              *)
(***************************************************************************)
VARIABLES roundState, order, pl, deck, trumpCard, trumpSuit, potValue,
          dealerId, currentTrick, completedTricks, trickLeaderId,
          currentTrickNumber, currentKnockPlayerId, currentDiscardPlayerId,
          currentTurnPlayerId, dealerKeptTrump, dealerTrumpValue,
          nextRoundPotBonus, dealerHasSetAnte, specialHandWinner,
          specialHandType, specialRoundOutcome, roundIteratorOffset,
          pend, iter,
          discards, hands, leaves, settled, env, probe

vars == <<roundState, order, pl, deck, trumpCard, trumpSuit, potValue,
          dealerId, currentTrick, completedTricks, trickLeaderId,
          currentTrickNumber, currentKnockPlayerId, currentDiscardPlayerId,
          currentTurnPlayerId, dealerKeptTrump, dealerTrumpValue,
          nextRoundPotBonus, dealerHasSetAnte, specialHandWinner,
          specialHandType, specialRoundOutcome, roundIteratorOffset,
          pend, iter,
          discards, hands, leaves, settled, env, probe>>

\* The room as one record, so that a handler reads as the code does: a
\* sequence of updates.  `overflow' is set when a callback would be
\* scheduled beyond MaxPend; such a step is not taken.
S ==
  [roundState |-> roundState, order |-> order, pl |-> pl, deck |-> deck,
   trumpCard |-> trumpCard, trumpSuit |-> trumpSuit, potValue |-> potValue,
   dealerId |-> dealerId, currentTrick |-> currentTrick,
   completedTricks |-> completedTricks, trickLeaderId |-> trickLeaderId,
   currentTrickNumber |-> currentTrickNumber,
   currentKnockPlayerId |-> currentKnockPlayerId,
   currentDiscardPlayerId |-> currentDiscardPlayerId,
   currentTurnPlayerId |-> currentTurnPlayerId,
   dealerKeptTrump |-> dealerKeptTrump, dealerTrumpValue |-> dealerTrumpValue,
   nextRoundPotBonus |-> nextRoundPotBonus,
   dealerHasSetAnte |-> dealerHasSetAnte,
   specialHandWinner |-> specialHandWinner,
   specialHandType |-> specialHandType,
   specialRoundOutcome |-> specialRoundOutcome,
   roundIteratorOffset |-> roundIteratorOffset,
   pend |-> pend, iter |-> iter,
   discards |-> discards, hands |-> hands, leaves |-> leaves,
   settled |-> settled, overflow |-> FALSE]

Apply(s) ==
  /\ ~s.overflow
  /\ roundState' = s.roundState
  /\ order' = s.order
  /\ pl' = s.pl
  /\ deck' = s.deck
  /\ trumpCard' = s.trumpCard
  /\ trumpSuit' = s.trumpSuit
  /\ potValue' = s.potValue
  /\ dealerId' = s.dealerId
  /\ currentTrick' = s.currentTrick
  /\ completedTricks' = s.completedTricks
  /\ trickLeaderId' = s.trickLeaderId
  /\ currentTrickNumber' = s.currentTrickNumber
  /\ currentKnockPlayerId' = s.currentKnockPlayerId
  /\ currentDiscardPlayerId' = s.currentDiscardPlayerId
  /\ currentTurnPlayerId' = s.currentTurnPlayerId
  /\ dealerKeptTrump' = s.dealerKeptTrump
  /\ dealerTrumpValue' = s.dealerTrumpValue
  /\ nextRoundPotBonus' = s.nextRoundPotBonus
  /\ dealerHasSetAnte' = s.dealerHasSetAnte
  /\ specialHandWinner' = s.specialHandWinner
  /\ specialHandType' = s.specialHandType
  /\ specialRoundOutcome' = s.specialRoundOutcome
  /\ roundIteratorOffset' = s.roundIteratorOffset
  /\ pend' = s.pend
  /\ iter' = s.iter
  /\ discards' = s.discards
  /\ hands' = s.hands
  /\ leaves' = s.leaves
  /\ settled' = s.settled
  /\ env' = env
  /\ probe' = probe

Player(admin, isBot, money) ==
  [money |-> money, bet |-> initialPlayerBet, ready |-> FALSE,
   autoReady |-> FALSE, disconnected |-> FALSE, admin |-> admin,
   roundOutcome |-> "", hand |-> <<>>, selected |-> {},
   knockedIn |-> FALSE, hasKnockDecision |-> FALSE,
   hasDiscardDecision |-> FALSE, dealerCompletedNormalDiscard |-> FALSE,
   tricksWon |-> 0, wentSet |-> FALSE, setAmount |-> 0, setType |-> "",
   isBot |-> isBot, reconn |-> FALSE]

\* [...players.values()].filter(p => p.ready) and
\* .filter(p => p.ready && p.knockedIn), as ids in map order
ReadyIds(s) ==
  LET Test(p) == s.pl[p].ready IN SelectSeq(s.order, Test)
KnockedInIds(s) ==
  LET Test(p) == s.pl[p].ready /\ s.pl[p].knockedIn
  IN SelectSeq(s.order, Test)

\* Array.indexOf / findIndex: 0-based, -1 when absent
IndexOf(seq, x) ==
  IF \E i \in 1..Len(seq) : seq[i] = x
  THEN (CHOOSE i \in 1..Len(seq) :
          seq[i] = x /\ \A j \in 1..(i - 1) : seq[j] # x) - 1
  ELSE -1

\* a.concat(a.splice(0, n))
Rotate(seq, n) ==
  IF Len(seq) = 0 THEN seq
  ELSE SubSeq(seq, n + 1, Len(seq)) \o SubSeq(seq, 1, n)

InRoom(s, p) == \E i \in 1..Len(s.order) : s.order[i] = p

RemoveId(seq, p) ==
  LET Keep(x) == x # p IN SelectSeq(seq, Keep)

(***************************************************************************)
(* Delayed callbacks.  A pending callback is <<kind, id>>; id is the       *)
(* player the callback captured, NoId when it captured none.  `pend' is    *)
(* in scheduling order.  The clock fires a callback when its delay has     *)
(* elapsed, so of two pending callbacks the one scheduled first fires      *)
(* first whenever its longest delay is at most the other's shortest.       *)
(***************************************************************************)
PendKinds ==
  {"dealing", "trick", "special", "end", "endWT", "trigger", "botTrump",
   "botKnock", "botDiscard", "botFinal", "botPlay", "botAnte", "botReady",
   "inactivity", "start"}

NoPend == <<>>

\* delays in ms
botCheckDelay == 100
botThinkingMin == 500
botThinkingMax == 3000
botFinalDiscardDelay == 500
botAnteDelay == 1000
botReadyMin == 500
botReadyMax == 2000
trickShowTime == 3000
specialHandShowTime == 5000
goingSetExtraDelay == 3000
inactivityTimeout == 30000
delayedRoundStartTime == 2000
roundStateDealingTime == 1000
roundStateEndTimeBase == 2500
roundStateEndTimePlayer == 500
maxClients == 6

BotThinkKinds == {"botTrump", "botKnock", "botDiscard", "botPlay"}

minDelay(kind) ==
  CASE kind = "trigger" -> botCheckDelay
    [] kind \in BotThinkKinds -> botThinkingMin
    [] kind = "botFinal" -> botFinalDiscardDelay
    [] kind = "botAnte" -> botAnteDelay
    [] kind = "botReady" -> botReadyMin
    [] kind = "dealing" -> roundStateDealingTime
    [] kind = "start" -> delayedRoundStartTime
    [] kind = "trick" -> trickShowTime
    [] kind = "special" -> specialHandShowTime
    [] kind \in {"end", "endWT"} ->
         roundStateEndTimeBase + roundStateEndTimePlayer
    [] kind = "inactivity" -> inactivityTimeout

maxDelay(kind) ==
  CASE kind \in BotThinkKinds -> botThinkingMax
    [] kind = "botReady" -> botReadyMax
    [] kind \in {"end", "endWT"} ->
         roundStateEndTimeBase + maxClients * roundStateEndTimePlayer
         + goingSetExtraDelay
    [] OTHER -> minDelay(kind)

PendingCount(s, kind, id) ==
  Cardinality({i \in 1..Len(s.pend) : s.pend[i] = <<kind, id>>})

Schedule(s, kind, id) ==
  IF PendingCount(s, kind, id) >= MaxPend
  THEN [s EXCEPT !.overflow = TRUE]
  ELSE [s EXCEPT !.pend = Append(@, <<kind, id>>)]

\* botAnte and botReady callbacks re-check everything they change, and
\* what they set stays set until the end of the hand: a copy scheduled
\* while one is pending never does anything.
ScheduleOnce(s, kind, id) ==
  IF PendingCount(s, kind, id) > 0 THEN s
  ELSE [s EXCEPT !.pend = Append(@, <<kind, id>>)]

\* TimerRef.clear()
Cancel(s, kind) ==
  LET Keep(e) == e[1] # kind IN [s EXCEPT !.pend = SelectSeq(@, Keep)]

\* Bot callbacks are scheduled in the step that arms the inactivity timer or
\* in the chain of bot callbacks that step starts, each at most a few seconds
\* long: the 30 s timer never fires while one of them is pending.
BotKinds == BotThinkKinds \cup {"trigger", "botFinal"}

\* the i-th pending callback may fire now
CanFire(s, i) ==
  /\ \A j \in 1..(i - 1) : maxDelay(s.pend[j][1]) > minDelay(s.pend[i][1])
  /\ s.pend[i][1] = "inactivity" =>
       \A j \in 1..Len(s.pend) : s.pend[j][1] \notin BotKinds

\* the room as the i-th pending callback starts running
Fired(s, i) ==
  [s EXCEPT !.pend = SubSeq(@, 1, i - 1) \o SubSeq(@, i + 1, Len(@))]

HasBots(s) == \E p \in Ids : s.pl[p].isBot

\* triggerBotDecisions: the 100 ms callback only looks at bots, so a room
\* that holds none schedules nothing observable.
triggerBotDecisions(s) ==
  IF HasBots(s) THEN Schedule(s, "trigger", NoId) ELSE s

clearInactivity(s) == Cancel(s, "inactivity")
setInactivitySkipTimeout(s) ==
  [s EXCEPT !.pend = Append(clearInactivity(s).pend, <<"inactivity", NoId>>)]

(***************************************************************************)
(* Settlement                                                              *)
(***************************************************************************)
Max(a, b) == IF a > b THEN a ELSE b

faceValues == {"J", "Q", "K", "A"}

\* the body of calculateGoingSet's loop for one knocked-in player
MutGoingSetAlwaysSingle(s, p) ==
  LET player == s.pl[p]
      goesSet == player.tricksWon < 1
      amount == s.potValue
  IN IF goesSet
     THEN [s EXCEPT !.pl[p].wentSet = TRUE,
                    !.pl[p].setType = "single",
                    !.pl[p].setAmount = amount,
                    !.pl[p].money = Max(player.money - amount, 0)]
     ELSE s

MutGoingSetNeedsTwo(s, p) ==
  LET player == s.pl[p]
      isDealer == p = s.dealerId
      double == isDealer /\ s.dealerKeptTrump /\ s.dealerTrumpValue \in faceValues
      amount == IF double THEN s.potValue * 2 ELSE s.potValue
  IN IF player.tricksWon < 2
     THEN [s EXCEPT !.pl[p].wentSet = TRUE,
                    !.pl[p].setType = IF double THEN "double" ELSE "single",
                    !.pl[p].setAmount = amount,
                    !.pl[p].money = Max(player.money - amount, 0)]
     ELSE s

GoingSetOf(s, p) ==
  LET player == s.pl[p]
      isDealer == p = s.dealerId
      isFaceTrump == s.dealerTrumpValue \in faceValues
      setType ==
        IF isDealer /\ s.dealerKeptTrump /\ isFaceTrump
        THEN "double" ELSE "single"
      goesSet ==
        IF isDealer /\ s.dealerKeptTrump /\ isFaceTrump
        THEN player.tricksWon < 2
        ELSE player.tricksWon < 1
      amount == IF setType = "double" THEN s.potValue * 2 ELSE s.potValue
  IN IF goesSet
     THEN [s EXCEPT !.pl[p].wentSet = TRUE,
                    !.pl[p].setType = setType,
                    !.pl[p].setAmount = amount,
                    !.pl[p].money =
                      IF player.money - amount < 0 THEN 0
                      ELSE player.money - amount]
     ELSE s

RECURSIVE GoingSetLoop(_, _)
GoingSetLoop(s, ids) ==
  IF ids = <<>> THEN s
  ELSE GoingSetLoop(GoingSetOf(s, Head(ids)), Tail(ids))

RECURSIVE SumSetAmount(_, _)
SumSetAmount(s, ids) ==
  IF ids = <<>> THEN 0
  ELSE (IF s.pl[Head(ids)].wentSet THEN s.pl[Head(ids)].setAmount ELSE 0)
       + SumSetAmount(s, Tail(ids))

calculateGoingSet(s) ==
  LET knockedInPlayers == KnockedInIds(s)
      s1 == GoingSetLoop(s, knockedInPlayers)
      totalSetAmount == SumSetAmount(s1, knockedInPlayers)
      s2 == [s1 EXCEPT !.settled = @ + 1]
  IN IF totalSetAmount > 0
     THEN [s2 EXCEPT !.nextRoundPotBonus = totalSetAmount]
     ELSE s2

RECURSIVE AwardLoop(_, _, _)
AwardLoop(s, ids, trickValue) ==
  IF ids = <<>> THEN s
  ELSE
    LET p == Head(ids)
        s1 == IF s.pl[p].tricksWon > 0
              THEN [s EXCEPT !.pl[p].money = @ + s.pl[p].tricksWon * trickValue,
                             !.pl[p].roundOutcome = "win"]
              ELSE s
    IN AwardLoop(s1, Tail(ids), trickValue)

RECURSIVE MarkSetLosers(_, _)
MarkSetLosers(s, ids) ==
  IF ids = <<>> THEN s
  ELSE
    LET p == Head(ids)
        s1 == IF s.pl[p].wentSet
              THEN [s EXCEPT !.pl[p].roundOutcome = "lose"] ELSE s
    IN MarkSetLosers(s1, Tail(ids))

MutAwardOneTrickOnly(s) ==
  LET trickValue == s.potValue \div 3
      knockedInPlayers == KnockedInIds(s)
      paid == [s EXCEPT !.pl = [p \in Ids |->
                 IF s.pl[p].ready /\ s.pl[p].knockedIn /\ s.pl[p].tricksWon > 0
                 THEN [s.pl[p] EXCEPT !.money = @ + trickValue,
                                      !.roundOutcome = "win"]
                 ELSE s.pl[p]]]
  IN MarkSetLosers(paid, knockedInPlayers)

awardTrickWinnings(s) ==
  LET trickValue == s.potValue \div 3
      knockedInPlayers == KnockedInIds(s)
  IN MarkSetLosers(AwardLoop(s, knockedInPlayers, trickValue),
                   knockedInPlayers)

\* endRound up to its await: the end phase and the settlement
endRound(s) ==
  LET s1 == [s EXCEPT !.roundState = "end"]
      s2 == awardTrickWinnings(calculateGoingSet(s1))
  IN Schedule(s2, "end", NoId)

\* endRoundWithoutTricks up to its await
endRoundWithoutTricks(s) ==
  Schedule([s EXCEPT !.roundState = "end"], "endWT", NoId)

(***************************************************************************)
(* roundPlayersIdIterator: makeKnockedInIterator() is a generator, so its  *)
(* body runs at the first next(): "fresh" is created and not started,      *)
(* "run" holds the players not yet visited.  A removed player's object     *)
(* stays not ready, so removal drops the id from `rest'.                   *)
(***************************************************************************)
FreshIter == [st |-> "fresh", rest |-> <<>>]

RECURSIVE SkipNotIn(_, _)
SkipNotIn(s, ids) ==
  IF ids = <<>> THEN <<>>
  ELSE IF s.pl[Head(ids)].ready /\ s.pl[Head(ids)].knockedIn THEN ids
  ELSE SkipNotIn(s, Tail(ids))

\* next(): <<done, value, iterator after the call>>
IterNext(s) ==
  LET start ==
        IF s.iter.st = "fresh"
        THEN LET players == KnockedInIds(s)
             IN IF Len(players) = 0 THEN <<>>
                ELSE Rotate(players, s.roundIteratorOffset % Len(players))
        ELSE IF s.iter.st = "run" THEN s.iter.rest
        ELSE <<>>
      live == SkipNotIn(s, start)
  IN IF live = <<>>
     THEN <<TRUE, NoId, [st |-> "done", rest |-> <<>>]>>
     ELSE <<FALSE, Head(live), [st |-> "run", rest |-> Tail(live)]>>

turn(s) ==
  LET s1 == clearInactivity(s)
      nextPlayer == IterNext(s1)
      s2 == [s1 EXCEPT !.iter = nextPlayer[3],
                       !.currentTurnPlayerId = nextPlayer[2]]
  IN IF nextPlayer[1] THEN endRound(s2)
     ELSE setInactivitySkipTimeout(s2)

(***************************************************************************)
(* Idle: the start check, and removal of a player                          *)
(***************************************************************************)
RECURSIVE BotReadyLoop(_, _)
BotReadyLoop(s, ids) ==
  IF ids = <<>> THEN s
  ELSE
    LET p == Head(ids)
        s1 == IF s.pl[p].isBot /\ ~s.pl[p].ready /\ ~s.pl[p].disconnected
                 /\ (s.dealerHasSetAnte \/ p = s.dealerId)
              THEN ScheduleOnce(s, "botReady", p) ELSE s
    IN BotReadyLoop(s1, Tail(ids))

\* triggerNewRoundCheck that leaves a running countdown alone
MutNewRoundCheckKeepsCountdown(s) ==
  IF s.roundState # "idle" THEN s
  ELSE
    LET s1 == s
        playerArr == s1.order
        s2 == IF Len(playerArr) >= minPlayers
              THEN [s1 EXCEPT !.dealerId =
                      playerArr[(s1.roundIteratorOffset % Len(playerArr)) + 1]]
              ELSE s1
        dealerIsBot == InRoom(s2, s2.dealerId) /\ s2.pl[s2.dealerId].isBot
    IN IF dealerIsBot /\ ~s2.dealerHasSetAnte
       THEN ScheduleOnce(s2, "botAnte", NoId)
       ELSE
         LET s3 == BotReadyLoop(s2, playerArr)
         IN IF Len(playerArr) < minPlayers
               \/ (\E i \in 1..Len(playerArr) : ~s3.pl[playerArr[i]].ready)
               \/ ~s3.dealerHasSetAnte
            THEN s3
            ELSE [s3 EXCEPT !.pend = Append(@, <<"start", NoId>>)]

triggerNewRoundCheck(s) ==
  IF s.roundState # "idle" THEN s
  ELSE
    LET s1 == Cancel(s, "start")
        playerArr == s1.order
        s2 == IF Len(playerArr) >= minPlayers
              THEN [s1 EXCEPT !.dealerId =
                      playerArr[(s1.roundIteratorOffset % Len(playerArr)) + 1]]
              ELSE s1
        dealerIsBot == InRoom(s2, s2.dealerId) /\ s2.pl[s2.dealerId].isBot
    IN IF dealerIsBot /\ ~s2.dealerHasSetAnte
       THEN ScheduleOnce(s2, "botAnte", NoId)
       ELSE
         LET s3 == BotReadyLoop(s2, playerArr)
         IN IF Len(playerArr) < minPlayers
               \/ (\E i \in 1..Len(playerArr) : ~s3.pl[playerArr[i]].ready)
               \/ ~s3.dealerHasSetAnte
            THEN s3
            ELSE [s3 EXCEPT !.pend = Append(@, <<"start", NoId>>)]

\* deletePlayer(id); `a' is the player Math.random() picks as the new admin
deletePlayer(s, id, a) ==
  LET wasAdmin == s.pl[id].admin
      s1 == [s EXCEPT !.pl[id].ready = FALSE,
                      !.order = RemoveId(@, id),
                      !.iter.rest = RemoveId(@, id)]
      newAdmin == IF InRoom(s1, a) THEN a ELSE s1.order[1]
      s2 == IF wasAdmin /\ Len(s1.order) > 0
            THEN [s1 EXCEPT !.pl[id].admin = FALSE,
                            !.pl[newAdmin].admin = TRUE]
            ELSE s1
      s3 == IF id = s2.currentTurnPlayerId THEN turn(s2) ELSE s2
  IN triggerNewRoundCheck(s3)

(***************************************************************************)
(* endRound and endRoundWithoutTricks after their await                    *)
(***************************************************************************)
RECURSIVE ResetLoop(_, _, _)
ResetLoop(s, ids, a) ==
  IF ids = <<>> THEN s
  ELSE
    LET p == Head(ids)
        s1 == [s EXCEPT !.pl[p].hand = <<>>,
                        !.pl[p].selected = {},
                        !.pl[p].ready = s.pl[p].autoReady,
                        !.pl[p].roundOutcome = "",
                        !.pl[p].knockedIn = FALSE,
                        !.pl[p].hasKnockDecision = FALSE,
                        !.pl[p].hasDiscardDecision = FALSE,
                        !.pl[p].dealerCompletedNormalDiscard = FALSE]
        s2 == IF s1.pl[p].disconnected THEN deletePlayer(s1, p, a) ELSE s1
    IN ResetLoop(s2, Tail(ids), a)

EndCleanup(s, a, withSpecial) ==
  LET s1 == [s EXCEPT !.currentTrick = <<>>,
                      !.completedTricks = <<>>,
                      !.currentTrickNumber = 1,
                      !.trickLeaderId = NoId,
                      !.trumpSuit = "",
                      !.trumpCard = NoCard,
                      !.potValue = 0,
                      !.dealerHasSetAnte = FALSE,
                      !.specialRoundOutcome =
                        IF withSpecial THEN "" ELSE @]
      s2 == ResetLoop(s1, s1.order, a)
      s3 == [s2 EXCEPT !.roundIteratorOffset = @ + 1,
                       !.roundState = "idle"]
  IN triggerNewRoundCheck(s3)

(***************************************************************************)
(* Trick taking                                                            *)
(***************************************************************************)
isFirstPlayerAfterDealer(s, playerId) ==
  LET knockedInPlayers == KnockedInIds(s)
      dealerIndex == IndexOf(knockedInPlayers, s.dealerId)
  IN /\ Len(knockedInPlayers) > 0
     /\ knockedInPlayers[((dealerIndex + 1) % Len(knockedInPlayers)) + 1]
          = playerId

isValidCardPlay(s, p, cardToPlay) ==
  isValidCardPlayOf(s.pl[p].hand, cardToPlay, s.currentTrick,
                    s.currentTrickNumber, s.trumpSuit,
                    isFirstPlayerAfterDealer(s, p))

\* [playerId, card] of a special hand, in map order, sorted by priority
\* (Array.sort is stable): the first of the lowest priority number
SpecialHandsOf(s) ==
  LET Has(p) == checkPlayerForSpecialHand(s.pl[p].hand, s.trumpSuit) # ""
  IN SelectSeq(KnockedInIds(s), Has)

checkForSpecialHands(s) ==
  LET found == SpecialHandsOf(s)
      prio(p) ==
        SpecialPriority(checkPlayerForSpecialHand(s.pl[p].hand, s.trumpSuit))
      Best(p) == \A i \in 1..Len(found) : prio(p) <= prio(found[i])
  IN SelectSeq(found, Best)

RECURSIVE MarkReadyLosers(_, _, _)
MarkReadyLosers(s, ids, winner) ==
  IF ids = <<>> THEN s
  ELSE
    LET p == Head(ids)
        s1 == IF s.pl[p].ready /\ p # winner
              THEN [s EXCEPT !.pl[p].roundOutcome = "lose"] ELSE s
    IN MarkReadyLosers(s1, Tail(ids), winner)

\* handleSpecialHandWin that pays a third of the pot
MutSpecialHandWinThird(s, specialHands) ==
  LET winner == specialHands[1]
      s1 == [s EXCEPT
               !.roundState = "special-hand-win",
               !.specialHandWinner = winner,
               !.specialHandType =
                 checkPlayerForSpecialHand(s.pl[winner].hand, s.trumpSuit),
               !.pl[winner].money = @ + (s.potValue \div 3),
               !.pl[winner].roundOutcome = "win"]
  IN Schedule(MarkReadyLosers(s1, s1.order, winner), "special", NoId)

\* handleSpecialHandWin up to its await
handleSpecialHandWin(s, specialHands) ==
  LET winner == specialHands[1]
      s1 == [s EXCEPT
               !.roundState = "special-hand-win",
               !.specialHandWinner = winner,
               !.specialHandType =
                 checkPlayerForSpecialHand(s.pl[winner].hand, s.trumpSuit),
               !.pl[winner].money = @ + s.potValue,
               !.pl[winner].roundOutcome = "win"]
  IN Schedule(MarkReadyLosers(s1, s1.order, winner), "special", NoId)

startTrickTakingPhase(s) ==
  LET specialHands == checkForSpecialHands(s)
  IN IF Len(specialHands) > 0 THEN handleSpecialHandWin(s, specialHands)
     ELSE
       LET knockedInPlayers == KnockedInIds(s)
           dealerIndex == IndexOf(knockedInPlayers, s.dealerId)
           leader ==
             IF Len(knockedInPlayers) = 0 THEN NoId
             ELSE knockedInPlayers[
                    ((dealerIndex + 1) % Len(knockedInPlayers)) + 1]
           s1 == [s EXCEPT !.roundState = "turns",
                           !.currentTrick = <<>>,
                           !.currentTrickNumber = 1,
                           !.trickLeaderId = leader,
                           !.iter = FreshIter,
                           !.currentTurnPlayerId = leader]
       IN triggerBotDecisions(setInactivitySkipTimeout(s1))

nextPlayerInTrick(s) ==
  LET knockedInPlayers == KnockedInIds(s)
      currentPlayerIndex == IndexOf(knockedInPlayers, s.currentTurnPlayerId)
      nextPlayerId ==
        IF Len(knockedInPlayers) = 0 THEN NoId
        ELSE knockedInPlayers[
               ((currentPlayerIndex + 1) % Len(knockedInPlayers)) + 1]
      s1 == [s EXCEPT !.currentTurnPlayerId = nextPlayerId]
  IN triggerBotDecisions(setInactivitySkipTimeout(s1))

\* completeTrick up to its await; the continuation keeps trickWinner
completeTrick(s) ==
  LET w == determineTrickWinner(s.currentTrick, s.trumpSuit)
  IN IF w = 0 THEN s
     ELSE
       LET winnerId == s.currentTrick[w].playerId
           s1 == IF InRoom(s, winnerId)
                 THEN [s EXCEPT !.pl[winnerId].tricksWon = @ + 1] ELSE s
           s2 == [s1 EXCEPT
                    !.completedTricks =
                      Append(@, [trickNumber |-> s.currentTrickNumber,
                                 playedCards |-> s.currentTrick,
                                 winnerId |-> winnerId]),
                    !.trickLeaderId = winnerId,
                    !.roundState = "trick-complete"]
       IN Schedule(s2, "trick", winnerId)

RemoveAt(seq, i) == SubSeq(seq, 1, i - 1) \o SubSeq(seq, i + 1, Len(seq))

\* playCard(player, cardToPlay, cardIndex); cardIndex is 1-based here
playCard(s, p, cardIndex) ==
  LET cardToPlay == s.pl[p].hand[cardIndex]
      s1 == [s EXCEPT
               !.currentTrick = Append(@, [playerId |-> p, card |-> cardToPlay]),
               !.pl[p].hand = RemoveAt(@, cardIndex),
               !.pl[p].selected = @ \ {cardToPlay}]
  IN IF Len(s1.currentTrick) = Len(KnockedInIds(s1))
     THEN completeTrick(s1)
     ELSE nextPlayerInTrick(s1)

(***************************************************************************)
(* Knock-in and discard/draw                                               *)
(***************************************************************************)
\* getNonDealersInClockwiseOrder that starts at the dealer's right
MutNonDealersFromDealersRight(s) ==
  LET allPlayers == ReadyIds(s)
      dealerIndex == IndexOf(allPlayers, s.dealerId)
  IN IF dealerIndex = -1 THEN <<>>
     ELSE [i \in 1..(Len(allPlayers) - 1) |->
             allPlayers[((dealerIndex - i) % Len(allPlayers)) + 1]]


getNonDealersInClockwiseOrder(s) ==
  LET allPlayers == ReadyIds(s)
      dealerIndex == IndexOf(allPlayers, s.dealerId)
  IN IF dealerIndex = -1 THEN <<>>
     ELSE [i \in 1..(Len(allPlayers) - 1) |->
             allPlayers[((dealerIndex + i) % Len(allPlayers)) + 1]]

startNextDiscardTurn(s) ==
  LET Pending(p) == s.pl[p].knockedIn /\ ~s.pl[p].hasDiscardDecision
      waiting == SelectSeq(getNonDealersInClockwiseOrder(s), Pending)
  IN IF Len(waiting) > 0
     THEN triggerBotDecisions(setInactivitySkipTimeout(
            [s EXCEPT !.currentDiscardPlayerId = waiting[1]]))
     ELSE
       LET s1 == [s EXCEPT !.currentDiscardPlayerId = NoId]
           dealer == s1.pl[s1.dealerId]
       IN IF ~InRoom(s1, s1.dealerId) THEN endRound(s1)
          ELSE IF ~dealer.hasKnockDecision
          THEN triggerBotDecisions(setInactivitySkipTimeout(
                 [s1 EXCEPT !.roundState = "knock-in",
                            !.currentKnockPlayerId = s1.dealerId]))
          ELSE IF dealer.knockedIn /\ ~dealer.hasDiscardDecision
          THEN triggerBotDecisions(setInactivitySkipTimeout(
                 [s1 EXCEPT !.currentDiscardPlayerId = s1.dealerId]))
          ELSE startTrickTakingPhase(s1)

RECURSIVE ResetDiscardLoop(_, _)
ResetDiscardLoop(s, ids) ==
  IF ids = <<>> THEN s
  ELSE ResetDiscardLoop(
         [s EXCEPT !.pl[Head(ids)].hasDiscardDecision = FALSE], Tail(ids))

startDiscardDrawPhase(s) ==
  LET s1 == clearInactivity([s EXCEPT !.roundState = "discard-draw"])
      s2 == ResetDiscardLoop(s1, KnockedInIds(s1))
  IN triggerBotDecisions(startNextDiscardTurn(s2))

\* handleDealerAutoWin that counts no trick for the dealer
MutDealerAutoWinNoTricks(s) ==
  IF ~InRoom(s, s.dealerId) THEN endRound(s)
  ELSE endRound([s EXCEPT !.pl[s.dealerId].knockedIn = TRUE,
                          !.pl[s.dealerId].hasKnockDecision = TRUE,
                          !.pl[s.dealerId].roundOutcome = "win",
                          !.specialRoundOutcome = "dealer-auto-win"])

handleDealerAutoWin(s) ==
  IF ~InRoom(s, s.dealerId) THEN endRound(s)
  ELSE endRound([s EXCEPT !.pl[s.dealerId].knockedIn = TRUE,
                          !.pl[s.dealerId].hasKnockDecision = TRUE,
                          !.pl[s.dealerId].tricksWon = 3,
                          !.pl[s.dealerId].roundOutcome = "win",
                          !.specialRoundOutcome = "dealer-auto-win"])

checkNonDealerKnockDecisions(s) ==
  LET In(p) == s.pl[p].ready /\ p # s.dealerId /\ s.pl[p].knockedIn
      nonDealersIn == SelectSeq(s.order, In)
  IN IF Len(nonDealersIn) = 0 THEN handleDealerAutoWin(s)
     ELSE startDiscardDrawPhase(s)

startNextKnockTurn(s) ==
  LET Undecided(p) == ~s.pl[p].hasKnockDecision
      waiting == SelectSeq(getNonDealersInClockwiseOrder(s), Undecided)
  IN IF Len(waiting) > 0
     THEN triggerBotDecisions(setInactivitySkipTimeout(
            [s EXCEPT !.currentKnockPlayerId = waiting[1]]))
     ELSE checkNonDealerKnockDecisions(
            [s EXCEPT !.currentKnockPlayerId = NoId])

startKnockInPhase(s) ==
  startNextKnockTurn(clearInactivity([s EXCEPT !.roundState = "knock-in"]))

startTrumpSelectionPhase(s) ==
  triggerBotDecisions(setInactivitySkipTimeout(
    [s EXCEPT !.roundState = "trump-selection"]))

(***************************************************************************)
(* Dealing.  The deck is the cards array: drawCard() pops its last card.   *)
(* Deck.reset() may leave any permutation; Shuffle(k) are the ones the     *)
(* model deals, written in the order the cards are drawn.                  *)
(***************************************************************************)
Reverse(seq) == [i \in 1..Len(seq) |-> seq[Len(seq) + 1 - i]]

RECURSIVE Ascending(_, _)
Ascending(c, used) ==
  IF c > 31 THEN <<>>
  ELSE IF c \in used THEN Ascending(c + 1, used)
  ELSE <<c>> \o Ascending(c + 1, used)

\* the cards array whose draws start with `drawn', the rest ascending
DeckDrawing(drawn) == Reverse(drawn \o Ascending(0, Range(drawn)))

MutDrawCardPeek(s) ==
  IF Len(s.deck) = 0 THEN <<NoCard, s>>
  ELSE <<s.deck[Len(s.deck)], s>>

drawCard(s) ==
  IF Len(s.deck) = 0 THEN <<NoCard, s>>
  ELSE <<s.deck[Len(s.deck)],
         [s EXCEPT !.deck = SubSeq(@, 1, Len(@) - 1)]>>

addCardFromDeck(s, p) ==
  LET d == drawCard(s)
  IN IF d[1] = NoCard THEN s
     ELSE [d[2] EXCEPT !.pl[p].hand = Append(@, d[1])]

RECURSIVE DrawN(_, _, _)
DrawN(s, p, n) ==
  IF n = 0 THEN s ELSE DrawN(addCardFromDeck(s, p), p, n - 1)

RECURSIVE ResetForHand(_, _)
ResetForHand(s, ids) ==
  IF ids = <<>> THEN s
  ELSE
    LET p == Head(ids)
        s1 == IF s.pl[p].ready
              THEN [s EXCEPT !.pl[p].knockedIn = FALSE,
                             !.pl[p].hasKnockDecision = FALSE,
                             !.pl[p].hasDiscardDecision = FALSE,
                             !.pl[p].roundOutcome = "",
                             !.pl[p].dealerCompletedNormalDiscard = FALSE,
                             !.pl[p].selected = {},
                             !.pl[p].tricksWon = 0,
                             !.pl[p].wentSet = FALSE,
                             !.pl[p].setAmount = 0,
                             !.pl[p].setType = ""]
              ELSE s
    IN ResetForHand(s1, Tail(ids))

makeRoundIterator(s) ==
  LET players == ReadyIds(s)
  IN IF Len(players) = 0 THEN players
     ELSE Rotate(players, s.roundIteratorOffset % Len(players))

RECURSIVE AnteLoop(_, _)
AnteLoop(s, ids) ==
  IF ids = <<>> THEN s
  ELSE
    LET playerId == Head(ids)
        player == s.pl[playerId]
        shouldPayAnte ==
          IF s.nextRoundPotBonus > 0 THEN playerId = s.dealerId ELSE TRUE
        anteAmount ==
          IF playerId = s.dealerId
          THEN (IF s.nextRoundPotBonus > 0 THEN dealerExtraAnte
                ELSE player.bet + dealerExtraAnte)
          ELSE player.bet
        s1 == IF shouldPayAnte
              THEN [s EXCEPT !.pl[playerId].money = @ - anteAmount,
                             !.potValue = @ + anteAmount]
              ELSE s
        s2 == [s1 EXCEPT !.pl[playerId].hand = <<>>,
                         !.pl[playerId].selected = {}]
    IN AnteLoop(DrawN(s2, playerId, cardsPerHand), Tail(ids))

\* startRound up to its await; `cards' is what Deck.reset() left
MutStartRoundAllAnte(s, cards) ==
  LET s1 == [s EXCEPT !.roundState = "dealing",
                      !.deck = cards,
                      !.dealerKeptTrump = FALSE,
                      !.dealerTrumpValue = "",
                      !.discards = {},
                      !.hands = @ + 1]
      s2 == ResetForHand(s1, s1.order)
      carry == s2.nextRoundPotBonus
      s3 == AnteLoop([s2 EXCEPT !.nextRoundPotBonus = 0], makeRoundIterator(s2))
      s4 == [s3 EXCEPT !.potValue = @ + carry]
      d == drawCard(s4)
  IN Schedule([d[2] EXCEPT !.trumpCard = d[1]], "dealing", NoId)

startRound(s, cards) ==
  LET s1 == [s EXCEPT !.roundState = "dealing",
                      !.deck = cards,
                      !.dealerKeptTrump = FALSE,
                      !.dealerTrumpValue = "",
                      !.discards = {},
                      !.hands = @ + 1]
      s2 == ResetForHand(s1, s1.order)
      s3 == AnteLoop(s2, makeRoundIterator(s2))
      s4 == IF s3.nextRoundPotBonus > 0
            THEN [s3 EXCEPT !.potValue = @ + s3.nextRoundPotBonus,
                            !.nextRoundPotBonus = 0]
            ELSE s3
      d == drawCard(s4)
  IN Schedule([d[2] EXCEPT !.trumpCard = d[1]], "dealing", NoId)

(***************************************************************************)
(* Message handlers (the state change of an accepted message)              *)
(***************************************************************************)
RECURSIVE SetBets(_, _, _)
SetBets(s, ids, newBet) ==
  IF ids = <<>> THEN s
  ELSE SetBets([s EXCEPT !.pl[Head(ids)].bet = newBet], Tail(ids), newBet)

ready(s, p, state) ==
  LET s1 == IF state /\ p = s.dealerId
            THEN [(IF s.nextRoundPotBonus > 0
                   THEN SetBets(s, s.order, 3) ELSE s)
                  EXCEPT !.dealerHasSetAnte = TRUE]
            ELSE s
  IN IF state /\ p # s1.dealerId /\ ~s1.dealerHasSetAnte THEN s1
     ELSE triggerNewRoundCheck([s1 EXCEPT !.pl[p].ready = state])

autoReady(s, p, state) ==
  triggerNewRoundCheck([s EXCEPT !.pl[p].ready = state,
                                 !.pl[p].autoReady = state])

bet(s, p, newBet) ==
  [SetBets(s, s.order, newBet) EXCEPT !.dealerHasSetAnte = TRUE]

\* the trump decision of keepTrump and of the bot's callback
TrumpDecision(s, p, keep) ==
  LET s1 == IF keep
            THEN (IF s.trumpCard # NoCard
                  THEN [s EXCEPT !.pl[p].hand = Append(@, s.trumpCard),
                                 !.dealerKeptTrump = TRUE,
                                 !.dealerTrumpValue = CardValue(s.trumpCard)]
                  ELSE s)
            ELSE [s EXCEPT !.dealerKeptTrump = FALSE,
                           !.dealerTrumpValue = ""]
  IN IF s1.trumpCard # NoCard
     THEN [s1 EXCEPT !.trumpSuit = CardSuit(s1.trumpCard)] ELSE s1

keepTrump(s, p, keep) == startKnockInPhase(TrumpDecision(s, p, keep))

\* the single penalty of a dealer who chooses not to play
\* a decline charged by the tier of the trump card kept
MutDealerSetByTrump(s, p) ==
  LET amount == IF s.dealerKeptTrump /\ s.dealerTrumpValue \in faceValues
                THEN 2 * s.potValue ELSE s.potValue
  IN [s EXCEPT !.pl[p].wentSet = TRUE,
               !.pl[p].setType = IF amount = s.potValue THEN "single"
                                 ELSE "double",
               !.pl[p].setAmount = amount,
               !.pl[p].money = Max(@ - amount, 0),
               !.nextRoundPotBonus = @ + amount]


DealerSetSingle(s, p) ==
  [s EXCEPT !.pl[p].wentSet = TRUE,
            !.pl[p].setType = "single",
            !.pl[p].setAmount = s.potValue,
            !.pl[p].money = Max(@ - s.potValue, 0),
            !.nextRoundPotBonus = @ + s.potValue]

MutSoleWinnerNoPot(s, winner) == [s EXCEPT !.pl[winner].tricksWon = 3]

SoleWinner(s, winner) ==
  [s EXCEPT !.pl[winner].tricksWon = 3,
            !.pl[winner].money = @ + s.potValue]

knockIn(s, p, in) ==
  LET s1 == clearInactivity(
              [s EXCEPT !.pl[p].knockedIn = in,
                        !.pl[p].hasKnockDecision = TRUE,
                        !.pl[p].ready = IF in THEN @ ELSE FALSE])
  IN IF p = s1.dealerId
     THEN IF in
          THEN setInactivitySkipTimeout(
                 [s1 EXCEPT !.roundState = "discard-draw",
                            !.currentDiscardPlayerId = s1.dealerId])
          ELSE
            LET s2 == DealerSetSingle(s1, p)
                remainingPlayers == KnockedInIds(s2)
            IN IF Len(remainingPlayers) = 0 THEN endRoundWithoutTricks(s2)
               ELSE IF Len(remainingPlayers) = 1
               THEN endRoundWithoutTricks(
                      [SoleWinner(s2, remainingPlayers[1])
                       EXCEPT !.pl[remainingPlayers[1]].roundOutcome = "win"])
               ELSE startTrickTakingPhase(s2)
     ELSE startNextKnockTurn(s1)

\* handleDealerPassing(dealer): the bot dealer's pass
handleDealerPassing(s, p) ==
  LET s1 == DealerSetSingle([s EXCEPT !.pl[p].ready = FALSE], p)
      remainingPlayers == KnockedInIds(s1)
  IN IF Len(remainingPlayers) = 0 THEN endRoundWithoutTricks(s1)
     ELSE IF Len(remainingPlayers) = 1
     THEN endRoundWithoutTricks(SoleWinner(s1, remainingPlayers[1]))
     ELSE startDiscardDrawPhase(s1)

dealerGoSet(s, p) ==
  LET s1 == DealerSetSingle(
              [s EXCEPT !.pl[p].knockedIn = FALSE,
                        !.pl[p].hasKnockDecision = TRUE,
                        !.pl[p].ready = FALSE], p)
      remainingPlayers == KnockedInIds(s1)
  IN IF Len(remainingPlayers) = 0 THEN endRoundWithoutTricks(s1)
     ELSE startTrickTakingPhase(s1)

\* hand.cards.filter(card => !card.selected)
Unselected(s, p) ==
  LET Keep(c) == c \notin s.pl[p].selected IN SelectSeq(s.pl[p].hand, Keep)

SelectedCards(s, p) == Range(s.pl[p].hand) \cap s.pl[p].selected

selectCard(s, p, cardIndex) ==
  LET player == s.pl[p]
      card == player.hand[cardIndex]
      isDealerFinalDiscard ==
        p = s.dealerId /\ Len(player.hand) = 4
        /\ player.dealerCompletedNormalDiscard
      isTrumpCard == CardSuit(card) = s.trumpSuit /\ s.trumpCard # NoCard
                     /\ CardValue(card) = CardValue(s.trumpCard)
  IN IF isDealerFinalDiscard
     THEN IF isTrumpCard THEN s
          ELSE [s EXCEPT !.pl[p].selected =
                           IF card \in @ THEN {} ELSE {card}]
     ELSE IF card \in player.selected
     THEN [s EXCEPT !.pl[p].selected = @ \ {card}]
     ELSE IF p = s.dealerId /\ isTrumpCard THEN s
     ELSE IF Cardinality(SelectedCards(s, p)) < 3
     THEN [s EXCEPT !.pl[p].selected = @ \cup {card}]
     ELSE s

playCards(s, p) ==
  IF p = s.dealerId /\ Len(s.pl[p].hand) > 3
  THEN setInactivitySkipTimeout(
         [s EXCEPT !.pl[p].dealerCompletedNormalDiscard = TRUE,
                   !.pl[p].hasDiscardDecision = FALSE,
                   !.pl[p].selected = {}])
  ELSE startNextDiscardTurn(
         [s EXCEPT !.pl[p].hasDiscardDecision = TRUE,
                   !.pl[p].selected = {}])

\* removing the selected cards from the hand; the code keeps no pile of
\* them, `discards' records them
DropSelected(s, p) ==
  [s EXCEPT !.pl[p].hand = Unselected(s, p),
            !.pl[p].selected = {},
            !.discards = @ \cup SelectedCards(s, p)]

\* discardDraw with at least one card selected
discardDraw(s, p) ==
  LET n == Cardinality(SelectedCards(s, p))
      isDealerFinalDiscard ==
        p = s.dealerId /\ s.pl[p].dealerCompletedNormalDiscard
  IN IF isDealerFinalDiscard
     THEN IF n # 1 THEN s
          ELSE startTrickTakingPhase(
                 [DropSelected(s, p) EXCEPT !.pl[p].hasDiscardDecision = TRUE])
     ELSE
       LET s1 == DrawN(DropSelected(s, p), p, n)
       IN IF p = s1.dealerId /\ Len(s1.pl[p].hand) > 3
          THEN setInactivitySkipTimeout(
                 [s1 EXCEPT !.pl[p].dealerCompletedNormalDiscard = TRUE,
                            !.pl[p].selected = {},
                            !.pl[p].hasDiscardDecision = FALSE,
                            !.currentDiscardPlayerId = s1.dealerId])
          ELSE startNextDiscardTurn(
                 [s1 EXCEPT !.pl[p].dealerCompletedNormalDiscard =
                              IF p = s1.dealerId THEN TRUE ELSE @,
                            !.pl[p].hasDiscardDecision = TRUE])

\* the callback of setInactivitySkipTimeout
inactivitySkip(s) ==
  LET s1 == s
      id == s1.currentDiscardPlayerId
  IN IF s1.roundState = "discard-draw"
     THEN startNextDiscardTurn(
            IF id # NoId /\ InRoom(s1, id) /\ ~s1.pl[id].hasDiscardDecision
            THEN [s1 EXCEPT !.pl[id].hasDiscardDecision = TRUE]
            ELSE s1)
     ELSE s1

\* onLeave that removes the player whether or not the leave was consented
MutOnLeaveAlwaysDeletes(s, p, consented, a) ==
  LET s1 == [s EXCEPT !.pl[p].disconnected = TRUE,
                      !.pl[p].reconn = ~consented,
                      !.leaves = @ + 1]
  IN deletePlayer(s1, p, a)


\* onLeave of a human client; `a' as in deletePlayer
onLeave(s, p, consented, a) ==
  LET s1 == [s EXCEPT !.pl[p].disconnected = TRUE,
                      !.pl[p].reconn = ~consented,
                      !.leaves = @ + 1]
  IN IF consented \/ ~(s1.roundState # "idle" /\ s1.pl[p].ready)
     THEN deletePlayer(s1, p, a)
     ELSE s1

\* onLeave after allowReconnection() resolved
onReconnect(s, p) ==
  LET s1 == [s EXCEPT !.pl[p].disconnected = FALSE,
                      !.pl[p].reconn = FALSE]
  IN IF ~InRoom(s1, p)
     THEN triggerNewRoundCheck([s1 EXCEPT !.order = Append(@, p)])
     ELSE s1

(***************************************************************************)
(* Continuations of the awaited delays                                     *)
(***************************************************************************)
startRoundCont(s) == startTrumpSelectionPhase(s)

completeTrickCont(s, winnerId) ==
  LET s1 == [s EXCEPT !.currentTrick = <<>>]
  IN IF s1.currentTrickNumber >= 3 THEN endRound(s1)
     ELSE triggerBotDecisions(setInactivitySkipTimeout(
            [s1 EXCEPT !.currentTrickNumber = @ + 1,
                       !.currentTurnPlayerId = winnerId,
                       !.roundState = "turns"]))

handleSpecialHandWinCont(s) ==
  endRound([s
            EXCEPT !.specialHandWinner = NoId, !.specialHandType = ""])

endRoundCont(s, a) == EndCleanup(s, a, TRUE)

endRoundWithoutTricksCont(s, a) ==
  EndCleanup(s, a, FALSE)

delayedRoundStart(s, cards) == startRound(s, cards)

(***************************************************************************)
(* Bots.  Math.random() in the easy tier ranges over every decision the    *)
(* medium and hard tiers can compute, so a bot decision is an input of     *)
(* the callback that takes it.                                             *)
(***************************************************************************)
hasSpecialHand(hand, trump) ==
  LET Count(v) == Cardinality({i \in 1..Len(hand) : CardValue(hand[i]) = v})
      trumps == {i \in 1..Len(hand) : CardSuit(hand[i]) = trump}
      trumpValues == {CardValue(hand[i]) : i \in trumps}
  IN \/ Count("A") = 3
     \/ Count("7") = 3
     \/ Cardinality(trumps) = 3 /\ {"A", "K", "Q"} \subseteq trumpValues

\* scoreCard, in tenths
scoreCard(card, trump) ==
  (IF CardSuit(card) = trump THEN 4 ELSE 0)
  + (IF CardValue(card) \in faceValues THEN 3 ELSE 0)
  + (IF CardValue(card) = "A" THEN 2 ELSE 0)
  + (IF CardValue(card) = "7" THEN 1 ELSE 0)

\* evaluateDiscardDecision: the hand positions (1-based) to discard;
\* numToDiscard is Math.floor(Math.random() * 3)
evaluateDiscardDecision(s, botId, numToDiscard) ==
  LET botHand == s.pl[botId].hand
      score(i) == scoreCard(botHand[i], s.trumpSuit)
      isKeptTrump(i) ==
        CardSuit(botHand[i]) = s.trumpSuit /\ s.trumpCard # NoCard
        /\ CardValue(botHand[i]) = CardValue(s.trumpCard)
      low == {i \in 1..Len(botHand) : ~isKeptTrump(i) /\ score(i) < 4}
      Rank(i) ==
        Cardinality({j \in 1..Len(botHand) :
                       score(j) < score(i) \/ (score(j) = score(i) /\ j < i)})
  IN IF hasSpecialHand(botHand, s.trumpSuit) THEN {}
     ELSE IF botId = s.dealerId /\ s.pl[botId].dealerCompletedNormalDiscard
     THEN IF low # {}
          THEN {CHOOSE i \in low : \A j \in low : i <= j}
          ELSE {1} \cap (1..Len(botHand))
     ELSE {i \in 1..Len(botHand) : Rank(i) < numToDiscard}

findNonTrumpCardForDealer(s, p) ==
  LET hand == s.pl[p].hand
      other == {i \in 1..Len(hand) :
                  s.trumpCard = NoCard
                  \/ CardSuit(hand[i]) # CardSuit(s.trumpCard)
                  \/ CardValue(hand[i]) # CardValue(s.trumpCard)}
  IN IF other # {} THEN CHOOSE i \in other : \A j \in other : i <= j
     ELSE 1

getLegalPlays(s, hand) ==
  LET all == 1..Len(hand)
      aces == {i \in all : CardValue(hand[i]) = "A"
                           /\ CardSuit(hand[i]) = s.trumpSuit}
      leadSuit == CardSuit(s.currentTrick[1].card)
      sameSuit == {i \in all : CardSuit(hand[i]) = leadSuit}
      trumps == {i \in all : CardSuit(hand[i]) = s.trumpSuit}
  IN IF Len(s.currentTrick) = 0
     THEN IF s.currentTrickNumber = 1 /\ aces # {}
             /\ isFirstPlayerAfterDealer(s, s.currentTurnPlayerId)
          THEN {CHOOSE i \in aces : \A j \in aces : i <= j}
          ELSE all
     ELSE IF sameSuit # {} THEN sameSuit
     ELSE IF trumps # {} THEN trumps
     ELSE all

findAnyLegalCard(s, p) ==
  LET hand == s.pl[p].hand
      legal == {i \in 1..Len(hand) : isValidCardPlay(s, p, hand[i])}
  IN IF legal # {} THEN CHOOSE i \in legal : \A j \in legal : i <= j
     ELSE 0

\* the 100 ms callback of triggerBotDecisions
RECURSIVE BotCheckLoop(_, _)
BotCheckLoop(s, ids) ==
  IF ids = <<>> THEN s
  ELSE
    LET p == Head(ids)
        player == s.pl[p]
        s1 == IF ~player.isBot \/ player.disconnected THEN s
              ELSE IF s.roundState = "trump-selection" /\ p = s.dealerId
              THEN Schedule(s, "botTrump", p)
              ELSE IF s.roundState = "knock-in"
                      /\ p = s.currentKnockPlayerId
                      /\ ~player.hasKnockDecision
              THEN Schedule(s, "botKnock", p)
              ELSE IF s.roundState = "discard-draw"
                      /\ p = s.currentDiscardPlayerId
                      /\ ~player.hasDiscardDecision
              THEN Schedule(s, "botDiscard", p)
              ELSE IF s.roundState = "turns" /\ p = s.currentTurnPlayerId
              THEN Schedule(s, "botPlay", p)
              ELSE s
    IN BotCheckLoop(s1, Tail(ids))

botDecisionCheck(s) ==
  LET s1 == s IN BotCheckLoop(s1, s1.order)

\* the thinking-time callbacks of handleBot*Decision
botTrumpCallback(s, botId, shouldKeepTrump) ==
  keepTrump(s, botId, shouldKeepTrump)

botKnockCallback(s, botId, shouldKnock) ==
  LET s1 == clearInactivity(
              [s EXCEPT !.pl[botId].knockedIn = shouldKnock,
                        !.pl[botId].hasKnockDecision = TRUE,
                        !.pl[botId].ready =
                          IF shouldKnock THEN @ ELSE FALSE])
  IN IF botId = s1.dealerId
     THEN IF shouldKnock
          THEN triggerBotDecisions(setInactivitySkipTimeout(
                 [s1 EXCEPT !.roundState = "discard-draw",
                            !.currentDiscardPlayerId = s1.dealerId]))
          ELSE handleDealerPassing(s1, botId)
     ELSE startNextKnockTurn(s1)

botDiscardCallback(s, botId, numToDiscard) ==
  LET s0 == s
      discardIndexes == evaluateDiscardDecision(s0, botId, numToDiscard)
      bot == s0.pl[botId]
  IN IF discardIndexes = {}
     THEN IF botId = s0.dealerId /\ Len(bot.hand) > 3
          THEN Schedule(
                 [s0 EXCEPT
                    !.pl[botId].dealerCompletedNormalDiscard = TRUE,
                    !.pl[botId].hasDiscardDecision = FALSE,
                    !.pl[botId].selected =
                      {bot.hand[findNonTrumpCardForDealer(s0, botId)]}],
                 "botFinal", botId)
          ELSE startNextDiscardTurn(
                 [s0 EXCEPT !.pl[botId].hasDiscardDecision = TRUE])
     ELSE
       LET s1 == [s0 EXCEPT !.pl[botId].selected =
                    @ \cup {bot.hand[i] : i \in discardIndexes}]
       IN IF botId = s1.dealerId /\ bot.dealerCompletedNormalDiscard
          THEN startTrickTakingPhase(
                 [DropSelected(s1, botId)
                  EXCEPT !.pl[botId].hasDiscardDecision = TRUE])
          ELSE
            LET s2 == DrawN(DropSelected(s1, botId), botId,
                            Cardinality(discardIndexes))
            IN IF botId = s2.dealerId /\ Len(s2.pl[botId].hand) > 3
               THEN triggerBotDecisions(setInactivitySkipTimeout(
                      [s2 EXCEPT
                         !.pl[botId].dealerCompletedNormalDiscard = TRUE,
                         !.pl[botId].selected = {},
                         !.pl[botId].hasDiscardDecision = FALSE,
                         !.currentDiscardPlayerId = s2.dealerId]))
               ELSE startNextDiscardTurn(
                      [s2 EXCEPT
                         !.pl[botId].dealerCompletedNormalDiscard =
                           IF botId = s2.dealerId THEN TRUE ELSE @,
                         !.pl[botId].hasDiscardDecision = TRUE])

handleBotFinalDiscard(s, botId) ==
  LET s0 == s
  IN IF Cardinality(SelectedCards(s0, botId)) = 1
     THEN startTrickTakingPhase(
            [DropSelected(s0, botId)
             EXCEPT !.pl[botId].hasDiscardDecision = TRUE])
     ELSE s0

\* cardIndex is evaluateCardPlay's result (1-based, 0 for its -1)
botPlayCallback(s, botId, cardIndex) ==
  LET s0 == s
      hand == s0.pl[botId].hand
      legalIndex == findAnyLegalCard(s0, botId)
  IN IF cardIndex = 0 THEN s0
     ELSE IF isValidCardPlay(s0, botId, hand[cardIndex])
     THEN playCard(s0, botId, cardIndex)
     ELSE IF legalIndex # 0 THEN playCard(s0, botId, legalIndex)
     ELSE playCard(s0, botId, 1)

botAnteCallback(s) ==
  LET s0 == s
  IN IF s0.roundState = "idle" /\ ~s0.dealerHasSetAnte
     THEN triggerNewRoundCheck(
            [SetBets(s0, s0.order, 3) EXCEPT !.dealerHasSetAnte = TRUE])
     ELSE s0

botReadyCallback(s, botId) ==
  LET s0 == s
  IN IF ~s0.pl[botId].ready /\ s0.roundState = "idle"
     THEN triggerNewRoundCheck([s0 EXCEPT !.pl[botId].ready = TRUE,
                                          !.pl[botId].autoReady = TRUE])
     ELSE s0

(***************************************************************************)
(* Initial states: an idle room that minPlayers players have joined, no    *)
(* hand played yet.  A setup says which seats are bots, who is admin and   *)
(* the balances.  Bots are created when the first human joins, so seats    *)
(* 1 and 2 are bots once that human has left again.                        *)
(***************************************************************************)
\* what a poor player has left
PoorMoney == 25

Money == [p \in Ids |-> IF p = 1 THEN PoorMoney ELSE initialPlayerMoney]

\* The rooms the runs start from, each with the messages its clients send:
\* three humans playing every shuffle; three humans of whom some leave,
\* lose the connection or come back; three humans using autoReady; a bot
\* dealer with two humans (the humans who created the room and sat before
\* the bot have left and others have joined), dealt shuffle 1 or the
\* shuffle that turns up a low trump card beside a strong hand.
Setups ==
  {[bots |-> {}, admin |-> 1, money |-> Money, decks |-> 1..NumDecks,
    leaves |-> 0, select |-> MaxSelectIndex, autoReady |-> 0],
   [bots |-> {}, admin |-> 1, money |-> Money, decks |-> {1},
    leaves |-> MaxLeaves, select |-> 0, autoReady |-> 0],
   [bots |-> {}, admin |-> 1, money |-> Money, decks |-> {1},
    leaves |-> 0, select |-> 0, autoReady |-> MaxAutoReady],
   [bots |-> {1}, admin |-> 3, money |-> Money, decks |-> {1, 4},
    leaves |-> 0, select |-> MaxSelectIndex, autoReady |-> 0]}

Env(setup) ==
  [decks |-> setup.decks, leaves |-> setup.leaves, select |-> setup.select,
   autoReady |-> setup.autoReady]

Card3(a, b, c) == <<MkCard(a[1], a[2]), MkCard(b[1], b[2]), MkCard(c[1], c[2])>>

\* the draws of the shuffles the model deals: three cards for each of the
\* three players in dealing order, the trump card, the cards drawn next
Shuffle(k) ==
  CASE k = 1 ->
         DeckDrawing(
           Card3(<<"D", "J">>, <<"S", "7">>, <<"H", "9">>)
           \o Card3(<<"S", "A">>, <<"H", "10">>, <<"C", "8">>)
           \o Card3(<<"S", "Q">>, <<"H", "K">>, <<"D", "7">>)
           \o Card3(<<"S", "K">>, <<"S", "8">>, <<"H", "A">>))
    [] k = 2 ->
         DeckDrawing(
           Card3(<<"S", "9">>, <<"D", "K">>, <<"D", "Q">>)
           \o Card3(<<"S", "7">>, <<"H", "7">>, <<"C", "7">>)
           \o Card3(<<"S", "A">>, <<"H", "A">>, <<"C", "A">>)
           \o Card3(<<"D", "A">>, <<"D", "7">>, <<"C", "K">>))
    [] k = 3 ->
         DeckDrawing(
           Card3(<<"C", "A">>, <<"H", "7">>, <<"D", "10">>)
           \o Card3(<<"H", "J">>, <<"C", "9">>, <<"D", "8">>)
           \o Card3(<<"H", "Q">>, <<"S", "10">>, <<"D", "A">>)
           \o Card3(<<"H", "8">>, <<"H", "10">>, <<"C", "Q">>))
    [] k = 4 ->
         DeckDrawing(
           Card3(<<"H", "A">>, <<"D", "A">>, <<"S", "Q">>)
           \o Card3(<<"C", "9">>, <<"H", "10">>, <<"D", "8">>)
           \o Card3(<<"C", "K">>, <<"D", "9">>, <<"H", "8">>)
           \o Card3(<<"S", "8">>, <<"C", "7">>, <<"D", "Q">>))
    [] OTHER ->
         DeckDrawing([i \in 1..32 |-> (i * (2 * k + 1) + k) % 32])

InitRoom(setup) ==
  triggerNewRoundCheck(
    [roundState |-> "idle", order |-> <<1, 2, 3>>,
     pl |-> [p \in Ids |->
               Player(p = setup.admin, p \in setup.bots, setup.money[p])],
     deck |-> Shuffle(1), trumpCard |-> NoCard, trumpSuit |-> "",
     potValue |-> 0, dealerId |-> NoId, currentTrick |-> <<>>,
     completedTricks |-> <<>>, trickLeaderId |-> NoId,
     currentTrickNumber |-> 1, currentKnockPlayerId |-> NoId,
     currentDiscardPlayerId |-> NoId, currentTurnPlayerId |-> NoId,
     dealerKeptTrump |-> FALSE, dealerTrumpValue |-> "",
     nextRoundPotBonus |-> 0, dealerHasSetAnte |-> FALSE,
     specialHandWinner |-> NoId, specialHandType |-> "",
     specialRoundOutcome |-> "", roundIteratorOffset |-> 0,
     pend |-> NoPend,
     iter |-> [st |-> "none", rest |-> <<>>],
     discards |-> {}, hands |-> 0, leaves |-> 0, settled |-> 0,
     overflow |-> FALSE])

Start(s) ==
  /\ roundState = s.roundState
  /\ order = s.order
  /\ pl = s.pl
  /\ deck = s.deck
  /\ trumpCard = s.trumpCard
  /\ trumpSuit = s.trumpSuit
  /\ potValue = s.potValue
  /\ dealerId = s.dealerId
  /\ currentTrick = s.currentTrick
  /\ completedTricks = s.completedTricks
  /\ trickLeaderId = s.trickLeaderId
  /\ currentTrickNumber = s.currentTrickNumber
  /\ currentKnockPlayerId = s.currentKnockPlayerId
  /\ currentDiscardPlayerId = s.currentDiscardPlayerId
  /\ currentTurnPlayerId = s.currentTurnPlayerId
  /\ dealerKeptTrump = s.dealerKeptTrump
  /\ dealerTrumpValue = s.dealerTrumpValue
  /\ nextRoundPotBonus = s.nextRoundPotBonus
  /\ dealerHasSetAnte = s.dealerHasSetAnte
  /\ specialHandWinner = s.specialHandWinner
  /\ specialHandType = s.specialHandType
  /\ specialRoundOutcome = s.specialRoundOutcome
  /\ roundIteratorOffset = s.roundIteratorOffset
  /\ pend = s.pend
  /\ iter = s.iter
  /\ discards = s.discards
  /\ hands = s.hands
  /\ leaves = s.leaves
  /\ settled = s.settled

NoProbe == [fn |-> "none"]

Init ==
  /\ \E setup \in Setups : Start(InitRoom(setup)) /\ env = Env(setup)
  /\ probe = NoProbe

(***************************************************************************)
(* Actions: a message of a connected human client that its handler         *)
(* accepts, or a delayed callback firing.                                  *)
(***************************************************************************)
\* the i-th pending callback is <<kind, id>> and may fire
Due(i, kind, id) ==
  /\ i \in 1..Len(pend)
  /\ pend[i] = <<kind, id>>
  /\ CanFire(S, i)

\* A message from a client takes longer to arrive than the 100 ms a bot check
\* waits: no message lands between a step and the bot check it scheduled.
BotCheckDue ==
  \E i \in DOMAIN pend : pend[i][1] = "trigger" /\ CanFire(S, i)

Client(p) ==
  /\ InRoom(S, p)
  /\ ~pl[p].isBot
  /\ ~pl[p].disconnected
  /\ ~BotCheckDue

Ready(p, state) ==
  /\ Client(p)
  /\ roundState = "idle"
  /\ pl[p].ready # state
  /\ Apply(ready(S, p, state))
  /\ S' # S

AutoReady(p, state) ==
  /\ Client(p)
  /\ roundState = "idle"
  /\ pl[p].autoReady # state
  /\ state => Cardinality({q \in Ids : pl[q].autoReady /\ ~pl[q].isBot})
                < env.autoReady
  /\ Apply(autoReady(S, p, state))

Bet(p, newBet) ==
  /\ Client(p)
  /\ roundState = "idle"
  /\ ~pl[p].ready
  /\ newBet \in allowedAntes
  /\ newBet <= MaxAnte
  /\ p = dealerId
  /\ Apply(bet(S, p, newBet))
  /\ S' # S

KeepTrump(p, keep) ==
  /\ Client(p)
  /\ roundState = "trump-selection"
  /\ p = dealerId
  /\ Apply(keepTrump(S, p, keep))

KnockIn(p, in) ==
  /\ Client(p)
  /\ roundState = "knock-in"
  /\ ~pl[p].hasKnockDecision
  /\ p = currentKnockPlayerId
  /\ Apply(knockIn(S, p, in))

SelectCard(p, cardIndex) ==
  /\ Client(p)
  /\ roundState = "discard-draw"
  /\ p = currentDiscardPlayerId
  /\ ~pl[p].hasDiscardDecision
  /\ cardIndex \in 1..Len(pl[p].hand)
  /\ cardIndex <= env.select
  /\ Apply(selectCard(S, p, cardIndex))
  /\ S' # S

PlayCards(p) ==
  /\ Client(p)
  /\ roundState = "discard-draw"
  /\ p = currentDiscardPlayerId
  /\ ~pl[p].hasDiscardDecision
  /\ Apply(playCards(S, p))

DiscardDraw(p) ==
  /\ Client(p)
  /\ roundState = "discard-draw"
  /\ p = currentDiscardPlayerId
  /\ ~pl[p].hasDiscardDecision
  /\ SelectedCards(S, p) # {}
  /\ Apply(discardDraw(S, p))
  /\ S' # S

DealerGoSet(p) ==
  /\ Client(p)
  /\ roundState = "discard-draw"
  /\ p = dealerId
  /\ Apply(dealerGoSet(S, p))

PlayCard(p, cardIndex) ==
  /\ Client(p)
  /\ p = currentTurnPlayerId
  /\ roundState = "turns"
  /\ cardIndex \in 1..Len(pl[p].hand)
  /\ isValidCardPlay(S, p, pl[p].hand[cardIndex])
  /\ Apply(playCard(S, p, cardIndex))

Leave(p, consented, a) ==
  /\ Client(p)
  /\ leaves < env.leaves
  /\ a \in Range(order) \ {p} \/ (Range(order) = {p} /\ a = p)
  /\ Apply(onLeave(S, p, consented, a))

Reconnect(p) ==
  /\ pl[p].reconn
  /\ ~BotCheckDue
  /\ Apply(onReconnect(S, p))

DelayedRoundStart(i, k) ==
  /\ Due(i, "start", NoId)
  /\ hands < MaxHands
  /\ Apply(delayedRoundStart(Fired(S, i), Shuffle(k)))

DealingDone(i) ==
  /\ Due(i, "dealing", NoId)
  /\ Apply(startRoundCont(Fired(S, i)))

InactivityTimeout(i) ==
  /\ Due(i, "inactivity", NoId)
  /\ Apply(inactivitySkip(Fired(S, i)))

TrickDone(i, w) ==
  /\ Due(i, "trick", w)
  /\ Apply(completeTrickCont(Fired(S, i), w))

SpecialHandDone(i) ==
  /\ Due(i, "special", NoId)
  /\ Apply(handleSpecialHandWinCont(Fired(S, i)))

EndDone(i, a) ==
  /\ Due(i, "end", NoId)
  /\ a \in Range(order)
  /\ Apply(endRoundCont(Fired(S, i), a))

EndWithoutTricksDone(i, a) ==
  /\ Due(i, "endWT", NoId)
  /\ a \in Range(order)
  /\ Apply(endRoundWithoutTricksCont(Fired(S, i), a))

BotDecisionCheck(i) ==
  /\ Due(i, "trigger", NoId)
  /\ Apply(botDecisionCheck(Fired(S, i)))

BotTrump(i, b, keep) ==
  /\ Due(i, "botTrump", b)
  /\ trumpCard = NoCard => ~keep
  /\ Apply(botTrumpCallback(Fired(S, i), b, keep))

BotKnock(i, b, shouldKnock) ==
  /\ Due(i, "botKnock", b)
  /\ hasSpecialHand(pl[b].hand, trumpSuit) => shouldKnock
  /\ Apply(botKnockCallback(Fired(S, i), b, shouldKnock))

BotDiscard(i, b, numToDiscard) ==
  /\ Due(i, "botDiscard", b)
  /\ Apply(botDiscardCallback(Fired(S, i), b, numToDiscard))

BotFinalDiscard(i, b) ==
  /\ Due(i, "botFinal", b)
  /\ Apply(handleBotFinalDiscard(Fired(S, i), b))

BotPlay(i, b, cardIndex) ==
  /\ Due(i, "botPlay", b)
  /\ LET legalPlays == getLegalPlays(S, pl[b].hand)
     IN IF legalPlays = {} THEN cardIndex = 0 ELSE cardIndex \in legalPlays
  /\ Apply(botPlayCallback(Fired(S, i), b, cardIndex))

BotAnte(i) ==
  /\ Due(i, "botAnte", NoId)
  /\ Apply(botAnteCallback(Fired(S, i)))

BotReady(i, b) ==
  /\ Due(i, "botReady", b)
  /\ Apply(botReadyCallback(Fired(S, i), b))

Next ==
  \/ \E p \in Ids, state \in BOOLEAN : Ready(p, state)
  \/ \E p \in Ids, state \in BOOLEAN : AutoReady(p, state)
  \/ \E p \in Ids, newBet \in allowedAntes : Bet(p, newBet)
  \/ \E p \in Ids, keep \in BOOLEAN : KeepTrump(p, keep)
  \/ \E p \in Ids, in \in BOOLEAN : KnockIn(p, in)
  \/ \E p \in Ids, cardIndex \in 1..4 : SelectCard(p, cardIndex)
  \/ \E p \in Ids : PlayCards(p)
  \/ \E p \in Ids : DiscardDraw(p)
  \/ \E p \in Ids : DealerGoSet(p)
  \/ \E p \in Ids, cardIndex \in 1..4 : PlayCard(p, cardIndex)
  \/ \E p \in Ids, consented \in BOOLEAN, a \in Ids : Leave(p, consented, a)
  \/ \E p \in Ids : Reconnect(p)
  \/ \E i \in DOMAIN pend, k \in env.decks : DelayedRoundStart(i, k)
  \/ \E i \in DOMAIN pend : DealingDone(i)
  \/ \E i \in DOMAIN pend : InactivityTimeout(i)
  \/ \E i \in DOMAIN pend, w \in Ids : TrickDone(i, w)
  \/ \E i \in DOMAIN pend : SpecialHandDone(i)
  \/ \E i \in DOMAIN pend, a \in Ids : EndDone(i, a)
  \/ \E i \in DOMAIN pend, a \in Ids : EndWithoutTricksDone(i, a)
  \/ \E i \in DOMAIN pend : BotDecisionCheck(i)
  \/ \E i \in DOMAIN pend, b \in Ids, keep \in BOOLEAN : BotTrump(i, b, keep)
  \/ \E i \in DOMAIN pend, b \in Ids, shouldKnock \in BOOLEAN :
       BotKnock(i, b, shouldKnock)
  \/ \E i \in DOMAIN pend, b \in Ids, numToDiscard \in 0..2 :
       BotDiscard(i, b, numToDiscard)
  \/ \E i \in DOMAIN pend, b \in Ids : BotFinalDiscard(i, b)
  \/ \E i \in DOMAIN pend, b \in Ids, cardIndex \in 0..4 : BotPlay(i, b, cardIndex)
  \/ \E i \in DOMAIN pend : BotAnte(i)
  \/ \E i \in DOMAIN pend, b \in Ids : BotReady(i, b)

Spec == Init /\ [][Next]_vars

(***************************************************************************)
(* The rules of play as functions of their inputs.  Each specification     *)
(* below draws the inputs of one function from a bounded set, in a room    *)
(* that stays idle, and its action applies the function to them.           *)
(***************************************************************************)
\* cards per probed hand and plays per probed trick
MaxProbeHand == 3
MaxProbeTrick == 2

ProbeSuits == {"S", "H", "C"}
ProbeValues == {"7", "Q", "A"}
ProbeCards == {c \in Cards : CardSuit(c) \in ProbeSuits
                             /\ CardValue(c) \in ProbeValues}

\* the cards of a set in ascending order
RECURSIVE SetToSeq(_)
SetToSeq(set) ==
  IF set = {} THEN <<>>
  ELSE LET m == CHOOSE x \in set : \A y \in set : x <= y
       IN <<m>> \o SetToSeq(set \ {m})

\* sequences of distinct cards of `cards', of length lo..hi
DistinctSeqs(cards, lo, hi) ==
  UNION {{q \in [1..n -> cards] : \A i, j \in 1..n : i # j => q[i] # q[j]} :
         n \in lo..hi}

AsPlays(q) == [i \in 1..Len(q) |-> [playerId |-> i, card |-> q[i]]]

IdleRoom == InitRoom(CHOOSE setup \in Setups : setup.bots = {})

Idle ==
  /\ Start(IdleRoom)
  /\ env = [decks |-> {}, leaves |-> 0, select |-> 0, autoReady |-> 0]

RoomUnchanged ==
  UNCHANGED <<roundState, order, pl, deck, trumpCard, trumpSuit, potValue,
              dealerId, currentTrick, completedTricks, trickLeaderId,
              currentTrickNumber, currentKnockPlayerId,
              currentDiscardPlayerId, currentTurnPlayerId, dealerKeptTrump,
              dealerTrumpValue, nextRoundPotBonus, dealerHasSetAnte,
              specialHandWinner, specialHandType, specialRoundOutcome,
              roundIteratorOffset, pend, iter, discards, hands, leaves,
              settled, env>>

\* ---- isValidCardPlay
ValidProbesOf(h) ==
  {[fn |-> "isValidCardPlay", done |-> FALSE, out |-> FALSE,
    hand |-> SetToSeq(h), cardToPlay |-> c, trick |-> AsPlays(q),
    trickNo |-> n, trump |-> tr, first |-> f] :
     c \in h, q \in DistinctSeqs(ProbeCards \ h, 0, MaxProbeTrick),
     n \in 1..2, tr \in ProbeSuits, f \in BOOLEAN}

InitValid ==
  /\ Idle
  /\ \E h \in SUBSET ProbeCards :
       /\ Cardinality(h) \in 1..MaxProbeHand
       /\ probe \in ValidProbesOf(h)

ApplyValid ==
  /\ probe.fn = "isValidCardPlay"
  /\ ~probe.done
  /\ probe' = [probe EXCEPT
                 !.done = TRUE,
                 !.out = isValidCardPlayOf(probe.hand, probe.cardToPlay,
                                           probe.trick, probe.trickNo,
                                           probe.trump, probe.first)]
  /\ RoomUnchanged

SpecValid == InitValid /\ [][ApplyValid]_vars

\* rank of a card in the order 7 < 8 < 9 < 10 < J < Q < K < A
Rank(c) == CHOOSE i \in 1..8 : availableValues[i] = CardValue(c)

\* the five rules of a legal play
RefLegal(hand, cardToPlay, trick, trickNo, trump, first) ==
  LET held == Range(hand)
      OfSuit(set, suit) == {c \in set : CardSuit(c) = suit}
      trumpAce == MkCard(trump, "A")
      led == CardSuit(trick[1].card)
      ledPlayed == OfSuit({trick[i].card : i \in 1..Len(trick)}, led)
      best == CHOOSE b \in ledPlayed : \A c \in ledPlayed : Rank(c) <= Rank(b)
      beating == {c \in OfSuit(held, led) : Rank(c) > Rank(best)}
  IN IF trick = <<>>
     THEN (trickNo = 1 /\ first /\ trumpAce \in held) =>
            cardToPlay = trumpAce
     ELSE IF OfSuit(held, led) # {}
          THEN /\ CardSuit(cardToPlay) = led
               /\ beating # {} => cardToPlay \in beating
          ELSE OfSuit(held, trump) # {} => CardSuit(cardToPlay) = trump

MaxProbePlays == 3

InitWinner ==
  /\ Idle
  /\ probe \in
       {[fn |-> "determineTrickWinner", done |-> FALSE, out |-> 0,
         trick |-> AsPlays(q), trump |-> tr] :
          q \in DistinctSeqs(ProbeCards, 1, MaxProbePlays),
          tr \in Range(availableSuits)}

ApplyWinner ==
  /\ probe.fn = "determineTrickWinner"
  /\ ~probe.done
  /\ probe' = [probe EXCEPT
                 !.done = TRUE,
                 !.out = determineTrickWinner(probe.trick, probe.trump)]
  /\ RoomUnchanged

SpecWinner == InitWinner /\ [][ApplyWinner]_vars

\* the play that wins by the rules: the highest trump, or without a trump
\* the highest card of the led suit
RefWinner(trick, trump) ==
  LET plays == 1..Len(trick)
      trumps == {i \in plays : CardSuit(trick[i].card) = trump}
      ledSuit == {i \in plays :
                    CardSuit(trick[i].card) = CardSuit(trick[1].card)}
      pool == IF trumps # {} THEN trumps ELSE ledSuit
  IN CHOOSE i \in pool :
       \A j \in pool : Rank(trick[j].card) <= Rank(trick[i].card)

\* C5: determineTrickWinner returns the play of the highest trump if a trump
\* was played and otherwise the play of the highest card of the led suit,
\* ranks ordered 7 < 8 < 9 < 10 < J < Q < K < A; the winning card is
\* always a trump or a card of the led suit.
C5_WinnerIsHighestTrumpElseLed ==
  (probe.fn = "determineTrickWinner" /\ probe.done) =>
    /\ probe.out = RefWinner(probe.trick, probe.trump)
    /\ CardSuit(probe.trick[probe.out].card)
         \in {probe.trump, CardSuit(probe.trick[1].card)}

\* a low trump played second wins over the led Ace; a later higher trump
\* takes the trick from it
C5_Witness ==
  /\ probe.fn = "determineTrickWinner"
  /\ probe.done
  /\ Len(probe.trick) = 3
  /\ CardValue(probe.trick[1].card) = "A"
  /\ CardSuit(probe.trick[1].card) # probe.trump
  /\ CardSuit(probe.trick[2].card) = probe.trump
  /\ CardSuit(probe.trick[3].card) = probe.trump
  /\ Rank(probe.trick[3].card) > Rank(probe.trick[2].card)
  /\ probe.out = 3

\* ---- checkPlayerForSpecialHand and the choice among special hands
ThreeOf(v) == <<MkCard("S", v), MkCard("H", v), MkCard("C", v)>>

\* hands of one deck dealt to the players of the choice probe, trump D
ProbeHands ==
  {ThreeOf("A"), ThreeOf("7"),
   <<MkCard("D", "A"), MkCard("D", "K"), MkCard("D", "Q")>>,
   <<MkCard("S", "8"), MkCard("H", "9"), MkCard("D", "10")>>,
   <<MkCard("S", "K"), MkCard("H", "Q"), MkCard("C", "J")>>}

\* the room when discard/draw has finished with these hands
ProbeRoom(handOf, knocked) ==
  [IdleRoom EXCEPT
     !.trumpSuit = "D", !.dealerId = 1, !.potValue = 12,
     !.roundState = "discard-draw",
     !.pl = [p \in Ids |->
               [@[p] EXCEPT !.hand = handOf[p], !.ready = TRUE,
                            !.knockedIn = p \in knocked,
                            !.hasKnockDecision = TRUE]]]

InitSpecial ==
  /\ Idle
  /\ \/ \E a, b, c \in Cards, tr \in Range(availableSuits) :
          /\ a < b /\ b < c
          /\ probe = [fn |-> "checkPlayerForSpecialHand", done |-> FALSE,
                      out |-> "", cards |-> <<a, b, c>>, trump |-> tr]
     \/ \E handOf \in [Ids -> ProbeHands], knocked \in SUBSET Ids :
          /\ \A p, q \in Ids : p # q => handOf[p] # handOf[q]
          /\ probe = [fn |-> "checkForSpecialHands", done |-> FALSE,
                      out |-> NoId, handOf |-> handOf, knocked |-> knocked]

ApplySpecialHand ==
  /\ probe.fn = "checkPlayerForSpecialHand"
  /\ ~probe.done
  /\ probe' = [probe EXCEPT
                 !.done = TRUE,
                 !.out = checkPlayerForSpecialHand(probe.cards, probe.trump)]
  /\ RoomUnchanged

ApplySpecialChoice ==
  /\ probe.fn = "checkForSpecialHands"
  /\ ~probe.done
  /\ LET s == ProbeRoom(probe.handOf, probe.knocked)
         specialHands == checkForSpecialHands(s)
     IN probe' = [probe EXCEPT
                    !.done = TRUE,
                    !.out = IF Len(specialHands) > 0
                            THEN handleSpecialHandWin(s, specialHands)
                                   .specialHandWinner
                            ELSE NoId]
  /\ RoomUnchanged

NextSpecial == ApplySpecialHand \/ ApplySpecialChoice

SpecSpecial == InitSpecial /\ [][NextSpecial]_vars

\* the special hand a 3-card hand is, by the rules
RefSpecial(cards, trump) ==
  LET held == Range(cards)
  IN IF \A c \in held : CardValue(c) = "A" THEN "three-aces"
     ELSE IF \A c \in held : CardValue(c) = "7" THEN "three-sevens"
     ELSE IF held = {MkCard(trump, "A"), MkCard(trump, "K"),
                     MkCard(trump, "Q")}
          THEN "akq-trump"
     ELSE ""

\* C7: a 3-card hand is reported three-aces exactly when its cards are all
\* Aces, three-sevens exactly when all are 7s, akq-trump exactly when it is
\* the Ace, King and Queen of trump, and no special hand otherwise; among
\* the knocked-in players the chosen winner holds three Aces if one of them
\* does, else three 7s if one does, else A-K-Q of trump, and nobody is
\* chosen when none of them holds a special hand.
C7_SpecialHandPredicateAndPriority ==
  /\ (probe.fn = "checkPlayerForSpecialHand" /\ probe.done) =>
       probe.out = RefSpecial(probe.cards, probe.trump)
  /\ (probe.fn = "checkForSpecialHands" /\ probe.done) =>
       LET Type(p) == RefSpecial(probe.handOf[p], "D")
           Holds(type) == \E p \in probe.knocked : Type(p) = type
           best == IF Holds("three-aces") THEN "three-aces"
                   ELSE IF Holds("three-sevens") THEN "three-sevens"
                   ELSE IF Holds("akq-trump") THEN "akq-trump"
                   ELSE ""
       IN IF best = "" THEN probe.out = NoId
          ELSE probe.out \in probe.knocked /\ Type(probe.out) = best

\* three 7s sit before three Aces in the players map and the Aces are chosen
C7_Witness ==
  /\ probe.fn = "checkForSpecialHands"
  /\ probe.done
  /\ probe.knocked = Ids
  /\ probe.handOf[1] = ThreeOf("7")
  /\ probe.handOf[2] = <<MkCard("D", "A"), MkCard("D", "K"), MkCard("D", "Q")>>
  /\ probe.handOf[3] = ThreeOf("A")
  /\ probe.out = 3

(***************************************************************************)
(* Properties of the round engine.                                         *)
(***************************************************************************)
\* the phase graph: idle -> dealing -> trump-selection -> knock-in ->
\* discard-draw -> turns <-> trick-complete -> end -> idle, with the
\* shortcuts knock-in -> end and discard-draw -> special-hand-win -> end
PhaseGraph ==
  {<<"idle", "dealing">>, <<"dealing", "trump-selection">>,
   <<"trump-selection", "knock-in">>, <<"knock-in", "discard-draw">>,
   <<"discard-draw", "turns">>, <<"turns", "trick-complete">>,
   <<"trick-complete", "turns">>, <<"trick-complete", "end">>,
   <<"end", "idle">>, <<"knock-in", "end">>,
   <<"discard-draw", "special-hand-win">>, <<"special-hand-win", "end">>}

\* C2: every change of roundState follows an edge of the phase graph.
C2_PhaseGraphOnly ==
  [][roundState' # roundState => <<roundState, roundState'>> \in PhaseGraph]_vars

(***************************************************************************)
(* Card accounting.  The places a card of the hand can be: the hands of    *)
(* the players in the room, the discards, the deck, the trump card, and    *)
(* the cards played to the current and the completed tricks.               *)
(***************************************************************************)
RECURSIVE CardsInHands(_, _)
CardsInHands(s, ids) ==
  IF ids = <<>> THEN 0
  ELSE Len(s.pl[Head(ids)].hand) + CardsInHands(s, Tail(ids))

RECURSIVE CardsInTricks(_)
CardsInTricks(tricks) ==
  IF tricks = <<>> THEN 0
  ELSE Len(Head(tricks).playedCards) + CardsInTricks(Tail(tricks))

TrumpCount == IF trumpCard # NoCard THEN 1 ELSE 0

\* the sum the players can see: hands, discards, deck and trump card
AccountedCards ==
  CardsInHands(S, order) + Cardinality(discards) + Len(deck) + TrumpCount

\* from the end of dealing until the end-of-hand cleanup, which clears the
\* trump card
HandInProgress ==
  /\ roundState \notin {"idle", "dealing"}
  /\ trumpCard # NoCard

InSeq(q, c) == Cardinality({i \in DOMAIN q : q[i] = c})

RECURSIVE InTricks(_, _)
InTricks(tricks, c) ==
  IF tricks = <<>> THEN 0
  ELSE Cardinality({i \in DOMAIN Head(tricks).playedCards :
                      Head(tricks).playedCards[i].card = c})
       + InTricks(Tail(tricks), c)

RECURSIVE InHandsOf(_, _)
InHandsOf(ids, c) ==
  IF ids = {} THEN 0
  ELSE LET p == CHOOSE q \in ids : TRUE
       IN InSeq(pl[p].hand, c) + InHandsOf(ids \ {p}, c)

\* the trump card lies face up unless the dealer took it into their hand
TrumpOnTable == IF dealerKeptTrump THEN 0 ELSE TrumpCount

\* Places where card c is: a hand of a player in the room, a trick (the
\* current one or a completed one), the discards, the deck, or face up as
\* the trump card
Places(c) ==
  InHandsOf(Range(order), c)
  + (IF InTricks(completedTricks, c) > 0
         \/ \E i \in DOMAIN currentTrick : currentTrick[i].card = c
      THEN 1 ELSE 0)
  + (IF c \in discards THEN 1 ELSE 0)
  + InSeq(deck, c)
  + (IF trumpCard = c THEN TrumpOnTable ELSE 0)

\* a card that went with a player who left the room
LeftWithPlayer(c) ==
  \E p \in Ids \ Range(order) : c \in Range(pl[p].hand)

TimerStep ==
  \/ \E i \in DOMAIN pend, k \in env.decks : DelayedRoundStart(i, k)
  \/ \E i \in DOMAIN pend : DealingDone(i)
  \/ \E i \in DOMAIN pend : InactivityTimeout(i)
  \/ \E i \in DOMAIN pend, w \in Ids : TrickDone(i, w)
  \/ \E i \in DOMAIN pend : SpecialHandDone(i)
  \/ \E i \in DOMAIN pend, a \in Ids : EndDone(i, a)
  \/ \E i \in DOMAIN pend, a \in Ids : EndWithoutTricksDone(i, a)
  \/ \E i \in DOMAIN pend : BotDecisionCheck(i)
  \/ \E i \in DOMAIN pend, b \in Ids, keep \in BOOLEAN : BotTrump(i, b, keep)
  \/ \E i \in DOMAIN pend, b \in Ids, shouldKnock \in BOOLEAN :
       BotKnock(i, b, shouldKnock)
  \/ \E i \in DOMAIN pend, b \in Ids, numToDiscard \in 0..2 :
       BotDiscard(i, b, numToDiscard)
  \/ \E i \in DOMAIN pend, b \in Ids : BotFinalDiscard(i, b)
  \/ \E i \in DOMAIN pend, b \in Ids, cardIndex \in 0..4 : BotPlay(i, b, cardIndex)
  \/ \E i \in DOMAIN pend : BotAnte(i)
  \/ \E i \in DOMAIN pend, b \in Ids : BotReady(i, b)

\* C1: a hand that reaches end and then idle whatever its players do or
\* omit has, in every state on the way, a callback scheduled for the clock
\* to fire.
C1_RunningHandHasTimer == roundState # "idle" => pend # <<>>

(***************************************************************************)
(* Settlement                                                              *)
(***************************************************************************)
KeptFaceTrump == dealerKeptTrump /\ dealerTrumpValue \in faceValues

\* C11: a knocked-in non-dealer with at least one trick has not gone set,
\* and a dealer who kept a face-rank trump and has at least two tricks has
\* not gone set.
C11_TrickWinnersNeverSet ==
  \A p \in Ids :
    /\ (pl[p].knockedIn /\ p # dealerId /\ pl[p].tricksWon >= 1)
         => ~pl[p].wentSet
    /\ (p = dealerId /\ KeptFaceTrump /\ pl[p].tricksWon >= 2)
         => ~pl[p].wentSet

\* settled: the dealer kept a face-rank trump and took two tricks, a
\* non-dealer took the third, a third player went set
C11_Witness ==
  /\ settled = 1
  /\ KeptFaceTrump
  /\ pl[dealerId].tricksWon = 2 /\ ~pl[dealerId].wentSet
  /\ \E p \in Ids \ {dealerId} :
       pl[p].knockedIn /\ pl[p].tricksWon = 1 /\ ~pl[p].wentSet
  /\ \E p \in Ids : pl[p].wentSet

\* ---- endRound's settlement on the rooms trick play can end in: a dealer,
\* the knocked-in players, their tricks (3 in all), the trump card kept or
\* not, the pot.  A dealer who is not knocked in passed or chose to go set
\* before trick play and paid the pot into the carry-over then.
ProbePots == {12, 15, 30}

TrickSplits(knocked) ==
  {tr \in [Ids -> 0..3] :
     /\ \A p \in Ids \ knocked : tr[p] = 0
     /\ tr[1] + tr[2] + tr[3] = 3}

SettleRoom(pr) ==
  LET out == pr.dealer \notin pr.knocked
  IN [IdleRoom EXCEPT
        !.roundState = "trick-complete", !.dealerId = pr.dealer,
        !.potValue = pr.pot, !.trumpSuit = "S",
        !.trumpCard = MkCard("S", pr.tv),
        !.dealerKeptTrump = pr.kept,
        !.dealerTrumpValue = IF pr.kept THEN pr.tv ELSE "",
        !.currentTrickNumber = 3,
        !.nextRoundPotBonus = IF out THEN pr.pot ELSE 0,
        !.hands = 1,
        !.pl = [p \in Ids |->
                  [@[p] EXCEPT
                     !.ready = TRUE, !.hasKnockDecision = TRUE,
                     !.knockedIn = p \in pr.knocked,
                     !.tricksWon = pr.tricks[p],
                     !.wentSet = out /\ p = pr.dealer,
                     !.setType = IF out /\ p = pr.dealer THEN "single" ELSE "",
                     !.setAmount = IF out /\ p = pr.dealer THEN pr.pot ELSE 0,
                     !.money = IF out /\ p = pr.dealer
                               THEN Max(@ - pr.pot, 0) ELSE @]]]

InitSettle ==
  /\ Idle
  /\ \E d \in Ids, knocked \in SUBSET Ids, kept \in BOOLEAN,
        tv \in {"K", "8"}, pot \in ProbePots :
       /\ knocked # {}
       /\ \E tr \in TrickSplits(knocked) :
            probe = [fn |-> "endRound", done |-> FALSE, dealer |-> d,
                     knocked |-> knocked, kept |-> kept, tv |-> tv,
                     pot |-> pot, tricks |-> tr,
                     room |-> SettleRoom([dealer |-> d, knocked |-> knocked,
                                          kept |-> kept, tv |-> tv,
                                          pot |-> pot, tricks |-> tr])]

ApplySettle ==
  /\ probe.fn = "endRound"
  /\ ~probe.done
  /\ probe' = [probe EXCEPT !.done = TRUE, !.room = endRound(probe.room)]
  /\ RoomUnchanged

SpecSettle == InitSettle /\ [][ApplySettle]_vars

\* the penalty the going-set rules assess on a knocked-in player
RefPenalty(pr, q) ==
  LET face == q = pr.dealer /\ pr.kept /\ pr.tv \in faceValues
  IN IF q \notin pr.knocked THEN 0
     ELSE IF face THEN (IF pr.tricks[q] < 2 THEN 2 * pr.pot ELSE 0)
     ELSE (IF pr.tricks[q] < 1 THEN pr.pot ELSE 0)

RefPenalties(pr) == RefPenalty(pr, 1) + RefPenalty(pr, 2) + RefPenalty(pr, 3)

\* what settlement paid to player q: the balance after it, less the balance
\* after the penalty alone
PaidTo(before, after, q) ==
  after.pl[q].money
  - (IF q \in {x \in Ids : before.pl[x].knockedIn} /\ after.pl[q].wentSet
     THEN Max(before.pl[q].money - after.pl[q].setAmount, 0)
     ELSE before.pl[q].money)

TotalPayout(before, after) ==
  PaidTo(before, after, 1) + PaidTo(before, after, 2) + PaidTo(before, after, 3)

SettledProbe == probe.fn = "endRound" /\ probe.done
BeforeSettle == SettleRoom(probe)

C10_DealerGoingSet ==
  (SettledProbe /\ probe.dealer \in probe.knocked) =>
    LET d == probe.dealer
        t == probe.tricks[d]
        before == BeforeSettle.pl[d]
        after == probe.room.pl[d]
        pay == t * (probe.pot \div 3)
    IN IF probe.kept /\ probe.tv \in faceValues
       THEN /\ after.wentSet <=> t < 2
            /\ t < 2 => /\ after.setType = "double"
                        /\ after.setAmount = 2 * probe.pot
                        /\ after.money
                             = Max(before.money - 2 * probe.pot, 0) + pay
       ELSE /\ after.wentSet <=> t = 0
            /\ t = 0 => /\ after.setType = "single"
                        /\ after.setAmount = probe.pot
                        /\ after.money = Max(before.money - probe.pot, 0)

\* the dealer, who has 25, kept the king of trumps, took one trick of a pot
\* of 30 and went set double: 60 are due, the balance falls to 0 and the
\* trick pays 10
C10_Witness ==
  /\ SettledProbe
  /\ probe.dealer = 1 /\ 1 \in probe.knocked
  /\ probe.kept /\ probe.tv = "K" /\ probe.tricks[1] = 1 /\ probe.pot = 30
  /\ probe.room.pl[1].setType = "double"
  /\ probe.room.pl[1].setAmount = 60
  /\ probe.room.pl[1].money = 10

\* the penalties of the players who went set in the hand
SetAmounts(players) ==
  LET amt(p) == IF players[p].wentSet THEN players[p].setAmount ELSE 0
  IN amt(1) + amt(2) + amt(3)

\* C13: when the hand returns to idle the carry-over is the sum of
\* setAmount over the players who went set in the hand.
C13_CarryOverIsSumOfPenalties ==
  [][(roundState # "idle" /\ roundState' = "idle")
       => nextRoundPotBonus' = SetAmounts(pl')]_vars

\* ---- startRound's ante collection on the idle rooms a hand can start
\* from: every dealer offset, every ante of the dealer, a carry-over of the
\* hand before or none.  The room is brought to the countdown by the
\* handlers of bet and ready.
ProbeCarries == {0, 12, 24}

AnteRoom(offset, newBet, carry) ==
  LET s0 == triggerNewRoundCheck(
              [IdleRoom EXCEPT !.roundIteratorOffset = offset,
                               !.nextRoundPotBonus = carry])
      d == s0.dealerId
      others == SelectSeq(s0.order, LAMBDA q : q # d)
      s1 == ready(bet(s0, d, newBet), d, TRUE)
  IN ready(ready(s1, others[1], TRUE), others[2], TRUE)

InitAnte ==
  /\ Idle
  /\ \E offset \in 0..2, newBet \in allowedAntes, carry \in ProbeCarries :
       probe = [fn |-> "startRound", stage |-> 0,
                before |-> AnteRoom(offset, newBet, carry),
                room |-> AnteRoom(offset, newBet, carry)]

ApplyStartRound ==
  /\ probe.fn = "startRound"
  /\ probe.stage = 0
  /\ probe.room.pend = <<<<"start", NoId>>>>
  /\ \E k \in 1..NumDecks :
       probe' = [probe EXCEPT
                   !.stage = 1,
                   !.room = delayedRoundStart(Fired(probe.room, 1), Shuffle(k))]
  /\ RoomUnchanged

ApplyDealingDone ==
  /\ probe.fn = "startRound"
  /\ probe.stage = 1
  /\ probe' = [probe EXCEPT
                 !.stage = 2,
                 !.room = startRoundCont(Fired(probe.room, 1))]
  /\ RoomUnchanged

NextAnte == ApplyStartRound \/ ApplyDealingDone

SpecAnte == InitAnte /\ [][NextAnte]_vars

\* what player q paid at dealing
AntePaid(q) == probe.before.pl[q].money - probe.room.pl[q].money

\* C14: without carry-over everybody pays their ante, the dealer 3 more,
\* and the pot is the sum; with a carry-over C only the dealer pays, 3, the
\* pot is 3 + C and the carry-over is back to 0.
C14_AnteAndCarryOver ==
  (probe.fn = "startRound" /\ probe.stage >= 1) =>
    LET b == probe.before
        a == probe.room
        d == b.dealerId
        C == b.nextRoundPotBonus
    IN /\ a.nextRoundPotBonus = 0
       /\ a.dealerId = d
       /\ IF C = 0
          THEN /\ \A q \in Ids :
                    AntePaid(q) = b.pl[q].bet
                                  + (IF q = d THEN dealerExtraAnte ELSE 0)
               /\ a.potValue = AntePaid(1) + AntePaid(2) + AntePaid(3)
          ELSE /\ \A q \in Ids :
                    AntePaid(q) = IF q = d THEN dealerExtraAnte ELSE 0
               /\ a.potValue = dealerExtraAnte + C

\* dealing completed with a carry-over of 24: the pot is 27 and the
\* non-dealers paid nothing
C14_Witness ==
  /\ probe.fn = "startRound"
  /\ probe.stage = 2
  /\ probe.room.roundState = "trump-selection"
  /\ probe.before.nextRoundPotBonus = 24
  /\ probe.room.potValue = 27
  /\ probe.before.dealerId = 2
  /\ AntePaid(1) = 0

(***************************************************************************)
(* Intents.  An action of a client is a message its handler accepts: a     *)
(* dropped message is no step.                                             *)
(***************************************************************************)
\* C15: a message changes the state only in its phase and from the
\* required actor: the dealer for keepTrump, currentKnockPlayerId for
\* knockIn, currentDiscardPlayerId for selectCard, playCards, discardDraw
\* and dealerGoSet, currentTurnPlayerId with a legal card for playCard.
C15_OnlyRequiredActorActs ==
  [][\A p \in Ids :
       /\ (\E keep \in BOOLEAN : KeepTrump(p, keep))
            => roundState = "trump-selection" /\ p = dealerId
       /\ (\E in \in BOOLEAN : KnockIn(p, in))
            => roundState = "knock-in" /\ p = currentKnockPlayerId
       /\ ((\E cardIndex \in 1..4 : SelectCard(p, cardIndex))
           \/ PlayCards(p) \/ DiscardDraw(p) \/ DealerGoSet(p))
            => roundState = "discard-draw" /\ p = currentDiscardPlayerId
       /\ \A cardIndex \in 1..4 :
            PlayCard(p, cardIndex)
              => /\ roundState = "turns" /\ p = currentTurnPlayerId
                 /\ cardIndex <= Len(pl[p].hand)
                 /\ isValidCardPlay(S, p, pl[p].hand[cardIndex])]_vars

\* A message [kind, p, arg] and what its handler does with it in room s:
\* the guards of the onMessage handlers, then the handler.
Accepts(s, m) ==
  LET p == m.p
      player == s.pl[p]
  IN /\ InRoom(s, p)
     /\ CASE m.kind = "ready" -> s.roundState = "idle"
          [] m.kind = "keepTrump" ->
               s.roundState = "trump-selection" /\ p = s.dealerId
          [] m.kind = "knockIn" ->
               /\ s.roundState = "knock-in"
               /\ ~player.hasKnockDecision
               /\ p = s.currentKnockPlayerId
          [] m.kind = "selectCard" ->
               /\ s.roundState = "discard-draw"
               /\ p = s.currentDiscardPlayerId
               /\ ~player.hasDiscardDecision
               /\ m.arg \in 1..Len(player.hand)
          [] m.kind = "playCards" ->
               /\ s.roundState = "discard-draw"
               /\ p = s.currentDiscardPlayerId
               /\ ~player.hasDiscardDecision
          [] m.kind = "discardDraw" ->
               /\ s.roundState = "discard-draw"
               /\ p = s.currentDiscardPlayerId
               /\ ~player.hasDiscardDecision
               /\ SelectedCards(s, p) # {}
          [] m.kind = "dealerGoSet" ->
               s.roundState = "discard-draw" /\ p = s.dealerId
          [] m.kind = "playCard" ->
               /\ p = s.currentTurnPlayerId
               /\ s.roundState = "turns"
               /\ m.arg \in 1..Len(player.hand)
               /\ isValidCardPlay(s, p, player.hand[m.arg])

Deliver(s, m) ==
  IF ~Accepts(s, m) THEN s
  ELSE CASE m.kind = "ready" -> ready(s, m.p, m.arg)
         [] m.kind = "keepTrump" -> keepTrump(s, m.p, m.arg)
         [] m.kind = "knockIn" -> knockIn(s, m.p, m.arg)
         [] m.kind = "selectCard" -> selectCard(s, m.p, m.arg)
         [] m.kind = "playCards" -> playCards(s, m.p)
         [] m.kind = "discardDraw" -> discardDraw(s, m.p)
         [] m.kind = "dealerGoSet" -> dealerGoSet(s, m.p)
         [] m.kind = "playCard" -> playCard(s, m.p, m.arg)

Intents ==
  [kind : {"ready", "keepTrump", "knockIn"}, p : Ids, arg : BOOLEAN]
  \cup [kind : {"playCards", "discardDraw", "dealerGoSet"}, p : Ids,
        arg : {TRUE}]
  \cup [kind : {"selectCard", "playCard"}, p : Ids, arg : 1..4]

Humans == {p \in Ids : ~pl[p].isBot /\ ~pl[p].disconnected}

\* C16: a valid intent delivered twice in a row leaves the state that one
\* delivery leaves.  selectCard is left out: it toggles the selection by
\* design, and the second delivery undoes the first.
C16_TwiceIsOnce ==
  \A m \in Intents :
    (m.p \in Humans /\ Accepts(S, m) /\ m.kind # "selectCard")
      => Deliver(Deliver(S, m), m) = Deliver(S, m)

(***************************************************************************)
(* Inactivity                                                              *)
(***************************************************************************)
\* the player the room waits for
RequiredActor ==
  CASE roundState = "trump-selection" -> dealerId
    [] roundState = "knock-in" -> currentKnockPlayerId
    [] roundState = "discard-draw" -> currentDiscardPlayerId
    [] roundState = "turns" -> currentTurnPlayerId
    [] OTHER -> NoId

\* C17: when the inactivity deadline expires in trump-selection, knock-in,
\* discard-draw or turns, the room moves on: to another required actor or
\* to another phase.
C17_ExpiryAdvances ==
  [][\A i \in DOMAIN pend :
       (InactivityTimeout(i) /\ RequiredActor # NoId)
         => <<roundState, RequiredActor>>' # <<roundState, RequiredActor>>]_vars

(***************************************************************************)
(* Settlement                                                              *)
(***************************************************************************)
\* C18: no hand is settled twice and the dealer offset advances once per
\* hand: the runs of calculateGoingSet and awardTrickWinnings, and the
\* dealer offset, never exceed the number of hands dealt.
C18_SettledOncePerHand ==
  /\ settled <= hands
  /\ roundIteratorOffset <= hands

(***************************************************************************)
(* The start countdown                                                     *)
(***************************************************************************)
StartPending == \E i \in DOMAIN pend : pend[i][1] = "start"

CanStart ==
  /\ Len(order) >= minPlayers
  /\ \A p \in Range(order) : pl[p].ready
  /\ dealerHasSetAnte

C20_NoReadyBeforeAnte ==
  (roundState = "idle" /\ dealerId \in Range(order) /\ ~dealerHasSetAnte)
    => \A p \in Range(order) \ {dealerId} : ~pl[p].ready

(***************************************************************************)
(* Hands that end without trick play                                       *)
(***************************************************************************)
\* p is knocked in and holds a special hand
HoldsSpecialHand(p) ==
  /\ p \in Range(order) /\ pl[p].ready /\ pl[p].knockedIn
  /\ checkPlayerForSpecialHand(pl[p].hand, trumpSuit) # ""

\* C6: when trick play is about to start and a knocked-in player holds a
\* special hand, the phase becomes special-hand-win and never turns; the
\* holder is credited the whole pot, every other ready player is marked
\* loser, no card has been played; and special-hand-win is left for end
\* with no trick recorded.
C6_SpecialHandWinsBeforePlay ==
  [][/\ (roundState \in {"knock-in", "discard-draw"} /\ roundState' = "turns")
          => \A p \in Ids : ~HoldsSpecialHand(p)'
     /\ (roundState \in {"knock-in", "discard-draw"}
         /\ roundState' = "special-hand-win")
          => \E w \in Ids :
               /\ HoldsSpecialHand(w)'
               /\ specialHandWinner' = w
               /\ pl'[w].money = pl[w].money + potValue
               /\ pl'[w].roundOutcome = "win"
               /\ \A q \in Range(order') \ {w} :
                    pl'[q].ready => pl'[q].roundOutcome = "lose"
               /\ currentTrick' = <<>> /\ completedTricks' = <<>>
     /\ (roundState = "special-hand-win" /\ roundState' # "special-hand-win")
          => /\ roundState' = "end"
             /\ completedTricks' = <<>>
             /\ \A p \in Ids : pl'[p].tricksWon = 0]_vars

\* a special hand has just won the pot; another player is marked loser
C6_Witness ==
  /\ roundState = "special-hand-win"
  /\ completedTricks = <<>> /\ currentTrick = <<>>
  /\ \E w \in Ids :
       /\ specialHandWinner = w /\ HoldsSpecialHand(w)
       /\ pl[w].roundOutcome = "win"
       /\ pl[w].money = initialPlayerMoney - initialPlayerBet + potValue
       /\ \E q \in Range(order) \ {w} : pl[q].roundOutcome = "lose"

\* every ready non-dealer has decided at knock-in, and passed
AllNonDealersPassed ==
  /\ dealerId \in Range(order)
  /\ \A p \in Range(order) \ {dealerId} :
       pl[p].ready => pl[p].hasKnockDecision /\ ~pl[p].knockedIn

\* the step in which the last non-dealer passes
LastNonDealerPasses ==
  /\ roundState = "knock-in" /\ order' = order
  /\ ~AllNonDealersPassed /\ AllNonDealersPassed'

DealerPassesLeaving(w) ==
  /\ roundState = "knock-in" /\ order' = order
  /\ dealerId \in Range(order)
  /\ ~pl[dealerId].wentSet /\ pl'[dealerId].wentSet
  /\ {q \in Range(order) \ {dealerId} : pl[q].ready /\ pl[q].knockedIn} = {w}

\* C9: when the dealer, human or bot, passes at knock-in and one non-dealer
\* is knocked in, that player is credited 3 tricks and the whole pot, no
\* card is played, and the hand goes to end.
C9_SoleSurvivorWinsPot ==
  [][\A w \in Ids :
       DealerPassesLeaving(w)
         => /\ pl'[w].tricksWon = 3
            /\ pl'[w].money = pl[w].money + potValue
            /\ currentTrick' = <<>> /\ completedTricks' = <<>>
            /\ roundState' = "end"]_vars

\* a bot dealer has passed and the one knocked-in player has the pot
C9_Witness ==
  /\ roundState = "end" /\ completedTricks = <<>>
  /\ dealerId \in Range(order) /\ pl[dealerId].isBot
  /\ pl[dealerId].wentSet /\ pl[dealerId].setType = "single"
  /\ \E w \in Range(order) \ {dealerId} :
       /\ pl[w].knockedIn /\ pl[w].tricksWon = 3
       /\ pl[w].money = initialPlayerMoney - initialPlayerBet + potValue

(***************************************************************************)
(* Knock-in                                                                *)
(***************************************************************************)
\* the players after the dealer, in seating order from the dealer's left
SeatsAfterDealer ==
  LET d == IndexOf(order, dealerId)
  IN IF d = -1 THEN <<>> ELSE SubSeq(Rotate(order, d), 2, Len(order))

\* a non-dealer who passed at knock-in
PassedNonDealer(p) ==
  /\ p # dealerId /\ HandInProgress
  /\ pl[p].hasKnockDecision /\ ~pl[p].knockedIn

DealerDeclined ==
  /\ HandInProgress
  /\ pl[dealerId].wentSet /\ ~pl[dealerId].knockedIn

TrickPlayBegins ==
  roundState = "turns" /\ currentTrickNumber = 1 /\ currentTrick = <<>>

\* C23: the trump card a dealer kept is never among the discards of the
\* hand, and is in the dealer's hand when trick play begins with the
\* dealer in it.
C23_KeptTrumpStaysInHand ==
  (HandInProgress /\ dealerKeptTrump) =>
    /\ trumpCard \notin discards
    /\ (TrickPlayBegins /\ dealerId \in Range(order)
        /\ pl[dealerId].ready /\ pl[dealerId].knockedIn)
         => InSeq(pl[dealerId].hand, trumpCard) = 1


\* C24: when trick play begins every knocked-in player holds 3 cards.
C24_ThreeCardsAtTrickPlay ==
  TrickPlayBegins =>
    \A p \in Range(order) :
      (pl[p].ready /\ pl[p].knockedIn) => Len(pl[p].hand) = cardsPerHand


(***************************************************************************)
(* Dealing and discard/draw on the 32-card deck, for every number of       *)
(* participants the room admits: Deck.reset, three cards each through      *)
(* Hand.addCardFromDeck, the trump card through Deck.drawCard, then every  *)
(* participant in turn discards up to three cards and draws as many.       *)
(***************************************************************************)
DrawRoom(k) ==
  [deck |-> Shuffle(k),
   pl |-> [p \in 1..maxClients |-> [hand |-> <<>>]],
   trumpCard |-> NoCard]

RECURSIVE DealTo(_, _, _)
DealTo(s, p, n) ==
  IF p > n THEN s ELSE DealTo(DrawN(s, p, cardsPerHand), p + 1, n)

InitDraws ==
  /\ Idle
  /\ \E n \in minPlayers..maxClients, k \in 1..NumDecks :
       probe = [fn |-> "draws", n |-> n, stage |-> "reset", next |-> 1,
                drawn |-> 0, room |-> DrawRoom(k)]

\* startRound: the hands, then the trump card
ApplyDeal ==
  /\ probe.fn = "draws"
  /\ probe.stage = "reset"
  /\ LET s1 == DealTo(probe.room, 1, probe.n)
         d == drawCard(s1)
     IN probe' = [probe EXCEPT !.stage = "discard-draw",
                               !.room = [d[2] EXCEPT !.trumpCard = d[1]]]
  /\ RoomUnchanged

\* discardDraw of the participant whose turn it is, with k cards selected
ApplyDiscardDraw ==
  /\ probe.fn = "draws"
  /\ probe.stage = "discard-draw"
  /\ probe.next <= probe.n
  /\ \E k \in 0..cardsPerHand :
       LET p == probe.next
           s == probe.room
           kept == SubSeq(s.pl[p].hand, k + 1, Len(s.pl[p].hand))
       IN /\ k <= Len(s.pl[p].hand)
          /\ probe' = [probe EXCEPT
                         !.next = @ + 1,
                         !.drawn = k,
                         !.room = DrawN([s EXCEPT !.pl[p].hand = kept], p, k)]
  /\ RoomUnchanged

NextDraws == ApplyDeal \/ ApplyDiscardDraw

SpecDraws == InitDraws /\ [][NextDraws]_vars

\* the participant who drew last holds fewer cards than before the discard
DrawMissed ==
  /\ probe.stage = "discard-draw"
  /\ probe.next > 1
  /\ Len(probe.room.pl[probe.next - 1].hand) < cardsPerHand

\* Deck.drawCard on an empty deck gives no card and changes nothing, and
\* Hand.addCardFromDeck then adds nothing
EmptyDrawIsNoCard ==
  (probe.fn = "draws" /\ probe.room.deck = <<>>) =>
    /\ drawCard(probe.room) = <<NoCard, probe.room>>
    /\ \A p \in 1..probe.n : addCardFromDeck(probe.room, p) = probe.room

\* C25: with at most maxClients participants every draw of dealing and of
\* discard/draw finds a card: after dealing everybody holds three cards and
\* there is a trump card, and whoever discards k cards draws k cards.
C25_EveryDrawFindsACard ==
  (probe.fn = "draws" /\ probe.stage = "discard-draw") =>
    /\ probe.room.trumpCard # NoCard
    /\ \A p \in 1..probe.n : Len(probe.room.pl[p].hand) = cardsPerHand


\* the plays of the current trick and of the completed tricks
AllPlays ==
  Range(currentTrick)
    \cup UNION {Range(completedTricks[i].playedCards) :
                  i \in DOMAIN completedTricks}

\* C26: while cards are being played the current trick holds at most as many cards as
\* there are knocked-in players, and every play of the current trick and of
\* the completed tricks is a play of a player who knocked in, also after a
\* knocked-in player left in the middle of a trick.
C26_TrickWithinKnockedIn ==
  roundState = "turns" =>
    /\ Len(currentTrick) <= Len(KnockedInIds(S))
    /\ \A play \in AllPlays : pl[play.playerId].knockedIn


(***************************************************************************)
(* The order of play, on the hands of every dealer seat: the room is       *)
(* brought to the countdown with dealer offset 0, 1 or 2, dealt, and then  *)
(* driven by the players' messages and the trick callback.                 *)
(***************************************************************************)
LeadRoom(offset, k) ==
  LET s0 == AnteRoom(offset, initialPlayerBet, 0)
      s1 == delayedRoundStart(Fired(s0, 1), Shuffle(k))
  IN startRoundCont(Fired(s1, 1))

InitLead ==
  /\ Idle
  /\ \E offset \in 0..(minPlayers - 1), k \in 1..NumDecks :
       probe = [fn |-> "lead", room |-> LeadRoom(offset, k)]

\* a message of the hand, handled by its onMessage handler
ApplyIntent ==
  /\ probe.fn = "lead"
  /\ \E m \in Intents :
       /\ m.kind \notin {"ready", "selectCard", "discardDraw"}
       /\ Accepts(probe.room, m)
       /\ probe' = [probe EXCEPT !.room = Deliver(probe.room, m)]
  /\ RoomUnchanged

\* the callback of completeTrick's delay
ApplyTrickDone ==
  /\ probe.fn = "lead"
  /\ \E i \in DOMAIN probe.room.pend, w \in Ids :
       /\ probe.room.pend[i] = <<"trick", w>>
       /\ probe' = [probe EXCEPT
                      !.room = completeTrickCont(Fired(probe.room, i), w)]
  /\ RoomUnchanged

NextLead == ApplyIntent \/ ApplyTrickDone

SpecLead == InitLead /\ [][NextLead]_vars

\* the players of room s in seating order, beginning at the dealer's left
\* and ending with the dealer
SeatsLeftOfDealer(s) == Rotate(s.order, IndexOf(s.order, s.dealerId) + 1)

\* the knocked-in players of the hand in that order
KnockedInLeftOfDealer(s) ==
  LET Test(p) == s.pl[p].ready /\ s.pl[p].knockedIn
  IN SelectSeq(SeatsLeftOfDealer(s), Test)

\* the knocked-in player who follows p in seating order
NextKnockedIn(s, p) ==
  LET ids == KnockedInIds(s)
  IN ids[((IndexOf(ids, p) + 1) % Len(ids)) + 1]

\* trick play begins in b
LeadsTrickOne(a, b) ==
  /\ a.roundState # "turns"
  /\ b.roundState = "turns"
  /\ b.currentTrickNumber = 1

\* a card is played from a to b and the trick goes on
PlayGoesOn(a, b) ==
  /\ a.roundState = "turns"
  /\ b.roundState = "turns"
  /\ Len(b.currentTrick) = Len(a.currentTrick) + 1

\* C27: trick 1 is led by the first knocked-in player to the dealer's left,
\* whether or not the dealer is in the hand; a play that does not complete
\* the trick is a play of the player whose turn it was and passes the turn
\* to the next knocked-in player in seating order, and nobody has two cards
\* in one trick.
C27_TrickOrder ==
  [][probe.fn = "lead" =>
       LET a == probe.room
           b == probe'.room
       IN /\ LeadsTrickOne(a, b)
               => /\ b.currentTurnPlayerId = KnockedInLeftOfDealer(b)[1]
                  /\ b.trickLeaderId = b.currentTurnPlayerId
          /\ PlayGoesOn(a, b)
               => /\ b.currentTrick[Len(b.currentTrick)].playerId
                       = a.currentTurnPlayerId
                  /\ b.currentTurnPlayerId
                       = NextKnockedIn(b, a.currentTurnPlayerId)
                  /\ \A i, j \in DOMAIN b.currentTrick :
                       b.currentTrick[i].playerId = b.currentTrick[j].playerId
                         => i = j]_vars


\* C28: from dealing until the hand is back to idle, dealerId names a player
\* who is in the room; that player was ready when the hand was dealt; and
\* dealerId does not change while the hand runs.
C28_DealerFixedAndPresent ==
  [][/\ roundState' # "idle" => dealerId' \in Range(order')
     /\ (roundState = "idle" /\ roundState' = "dealing")
          => pl'[dealerId'].ready
     /\ (roundState # "idle" /\ roundState' # "idle")
          => dealerId' = dealerId]_vars


(***************************************************************************)
(* Membership.  The room is created empty; clients join an idle room,      *)
(* leave it with consent (by themselves or kicked by the admin), lose      *)
(* their connection and reconnect.  A session id joins once.               *)
(***************************************************************************)
\* onLeave calls of one behaviour
MaxProbeLeaves == 3

\* onJoin of a client without game setup
onJoin(s, p) ==
  triggerNewRoundCheck(
    [s EXCEPT !.pl[p] = Player(Len(s.order) = 0, FALSE, initialPlayerMoney),
              !.order = Append(@, p)])

EmptyRoom ==
  [IdleRoom EXCEPT !.order = <<>>,
                   !.dealerId = NoId,
                   !.pl = [p \in Ids |-> Player(FALSE, FALSE, initialPlayerMoney)]]

InitAdmin ==
  /\ Idle
  /\ probe = [fn |-> "admin", joined |-> {}, room |-> EmptyRoom]

ApplyJoin ==
  /\ probe.fn = "admin"
  /\ Len(probe.room.order) < maxClients
  /\ \E p \in Ids \ probe.joined :
       probe' = [probe EXCEPT !.joined = @ \cup {p},
                              !.room = onJoin(probe.room, p)]
  /\ RoomUnchanged

\* onLeave of a client in the room; a kick by the admin is a consented leave
ApplyLeave ==
  /\ probe.fn = "admin"
  /\ probe.room.leaves < MaxProbeLeaves
  /\ \E p \in Range(probe.room.order), consented \in BOOLEAN, a \in Ids :
       /\ ~probe.room.pl[p].disconnected
       /\ a \in Range(probe.room.order) \ {p}
            \/ (Range(probe.room.order) = {p} /\ a = p)
       /\ probe' = [probe EXCEPT
                      !.room = onLeave(probe.room, p, consented, a)]
  /\ RoomUnchanged

ApplyReconnect ==
  /\ probe.fn = "admin"
  /\ \E p \in Ids :
       /\ probe.room.pl[p].reconn
       /\ probe' = [probe EXCEPT !.room = onReconnect(probe.room, p)]
  /\ RoomUnchanged

NextAdmin == ApplyJoin \/ ApplyLeave \/ ApplyReconnect

SpecAdmin == InitAdmin /\ [][NextAdmin]_vars

\* the admins among the players of room s
AdminsOf(s) == {p \in Range(s.order) : s.pl[p].admin}

\* C29: whenever the room holds a player, exactly one player is admin, after
\* any joins, consented leaves, kicks, disconnects and reconnects.
C29_ExactlyOneAdmin ==
  (probe.fn = "admin" /\ probe.room.order # <<>>)
    => Cardinality(AdminsOf(probe.room)) = 1


(***************************************************************************)
(* Disconnects                                                             *)
(***************************************************************************)
\* p, ready in a running hand, loses the connection in this step
DisconnectsInHand(p) ==
  /\ roundState # "idle"
  /\ pl[p].ready
  /\ ~pl[p].disconnected
  /\ pl'[p].disconnected
  /\ pl'[p].reconn

\* p, kept in the room, reconnects in this step
ReconnectsInHand(p) ==
  /\ InRoom(S, p)
  /\ pl[p].disconnected
  /\ ~pl'[p].disconnected

\* p left with consent
LeftForGood(p) == ~InRoom(S, p) /\ ~pl[p].reconn

\* C30: a ready player's disconnect without consent during a hand changes
\* only that player's disconnected flag; the player stays in the player
\* set while the hand runs; a reconnect during the hand only clears the
\* flag again; a player who left with consent never comes back.
C30_DisconnectKeepsPlayer ==
  [][\A p \in Ids :
       /\ DisconnectsInHand(p)
            => S' = [S EXCEPT !.pl[p].disconnected = TRUE,
                              !.pl[p].reconn = TRUE,
                              !.leaves = @ + 1]
       /\ (InRoom(S, p) /\ pl[p].disconnected /\ roundState' # "idle")
            => InRoom(S', p)
       /\ ReconnectsInHand(p)
            => S' = [S EXCEPT !.pl[p].disconnected = FALSE,
                              !.pl[p].reconn = FALSE]
       /\ LeftForGood(p) => LeftForGood(p)']_vars

\* a ready player of a running hand is disconnected and still in the room,
\* holding the cards of the hand
C30_Witness ==
  \E p \in Ids :
    /\ roundState = "turns"
    /\ InRoom(S, p)
    /\ pl[p].disconnected
    /\ pl[p].reconn
    /\ pl[p].ready
    /\ pl[p].knockedIn
    /\ Len(pl[p].hand) = cardsPerHand


(***************************************************************************)
(* Hands that two players leave.  Three humans, shuffle 1, nobody selects  *)
(* cards or uses autoReady; every player may leave with consent, at any    *)
(* moment, up to MaxHandLeaves leaves in all.                              *)
(***************************************************************************)
MaxHandLeaves == 2

InitLeaves ==
  /\ \E setup \in Setups :
       /\ setup.bots = {}
       /\ setup.leaves > 0
       /\ Start(InitRoom(setup))
       /\ env = [Env(setup) EXCEPT !.leaves = MaxHandLeaves]
  /\ probe = NoProbe

NextLeaves ==
  \/ \E p \in Ids, state \in BOOLEAN : Ready(p, state)
  \/ \E p \in Ids, newBet \in allowedAntes : Bet(p, newBet)
  \/ \E p \in Ids, keep \in BOOLEAN : KeepTrump(p, keep)
  \/ \E p \in Ids, in \in BOOLEAN : KnockIn(p, in)
  \/ \E p \in Ids : PlayCards(p)
  \/ \E p \in Ids : DealerGoSet(p)
  \/ \E p \in Ids, cardIndex \in 1..4 : PlayCard(p, cardIndex)
  \/ \E p \in Ids, a \in Ids : Leave(p, TRUE, a)
  \/ \E i \in DOMAIN pend, k \in env.decks : DelayedRoundStart(i, k)
  \/ \E i \in DOMAIN pend : DealingDone(i)
  \/ \E i \in DOMAIN pend : InactivityTimeout(i)
  \/ \E i \in DOMAIN pend, w \in Ids : TrickDone(i, w)
  \/ \E i \in DOMAIN pend, a \in Ids : EndDone(i, a)
  \/ \E i \in DOMAIN pend, a \in Ids : EndWithoutTricksDone(i, a)

SpecLeaves == InitLeaves /\ [][NextLeaves]_vars


(***************************************************************************)
(* What the clients are sent.  The schema sends a card's value when the    *)
(* card's visible flag is set; the filter does not look at the client.     *)
(* Deck.reset creates the cards face down, Deck.drawCard sets the flag of  *)
(* the card it hands out to its argument, and every draw of the room       *)
(* passes true.                                                            *)
(***************************************************************************)
\* new Card(suit, value, false) in Deck.reset
visibleInDeck == FALSE
\* addCardFromDeck(this.state.deck, true) and drawCard(true)
visibleWhenDrawn == TRUE

\* @filter on Card.value
FilterCard(card, visible) == IF visible THEN card ELSE NoCard

\* the state a client of room s receives
Replicated(s) ==
  [roundState |-> s.roundState,
   players |-> s.order,
   hands |-> [p \in Ids |->
                [i \in DOMAIN s.pl[p].hand |->
                   FilterCard(s.pl[p].hand[i], visibleWhenDrawn)]],
   deck |-> [i \in DOMAIN s.deck |-> FilterCard(s.deck[i], visibleInDeck)],
   trumpCard |-> FilterCard(s.trumpCard, visibleWhenDrawn),
   currentTrick |-> s.currentTrick,
   completedTricks |-> s.completedTricks,
   potValue |-> s.potValue,
   money |-> [p \in Ids |-> s.pl[p].money],
   currentKnockPlayerId |-> s.currentKnockPlayerId,
   currentDiscardPlayerId |-> s.currentDiscardPlayerId,
   currentTurnPlayerId |-> s.currentTurnPlayerId]

\* the cards array with the cards at places i and j exchanged
SwapCards(cards, i, j) ==
  [n \in DOMAIN cards |->
     IF n = i THEN cards[j] ELSE IF n = j THEN cards[i] ELSE cards[n]]

\* the room after dealing the shuffled cards, dealer offset 0
ViewRoom(cards) ==
  LET s0 == AnteRoom(0, initialPlayerBet, 0)
      s1 == delayedRoundStart(Fired(s0, 1), cards)
  IN startRoundCont(Fired(s1, 1))

\* places of the cards array dealt to the hands (the last nine), and two
\* places that stay in the deck
HandPlaces == (32 - minPlayers * cardsPerHand + 1)..32
DeckPlaces == {1, 2}

\* two hands dealt from shuffles that differ in one card of one player
InitView ==
  /\ Idle
  /\ \E k \in 1..NumDecks, i \in HandPlaces, j \in DeckPlaces :
       LET a == ViewRoom(Shuffle(k))
           b == ViewRoom(SwapCards(Shuffle(k), i, j))
           q == CHOOSE p \in Ids : a.pl[p].hand # b.pl[p].hand
       IN probe = [fn |-> "view", other |-> q,
                   was |-> Shuffle(k)[i], a |-> a, b |-> b]

\* the same message in both runs
ApplySameIntent ==
  /\ probe.fn = "view"
  /\ \E m \in Intents :
       /\ m.kind \notin {"ready", "selectCard", "discardDraw"}
       /\ Accepts(probe.a, m)
       /\ Accepts(probe.b, m)
       /\ probe' = [probe EXCEPT !.a = Deliver(probe.a, m),
                                 !.b = Deliver(probe.b, m)]
  /\ RoomUnchanged

NextView == ApplySameIntent

SpecView == InitView /\ [][NextView]_vars

\* the card in which the runs differ is still in the other player's hand
StillHeld ==
  /\ InSeq(probe.a.pl[probe.other].hand, probe.was) = 1
  /\ probe.a.pl[probe.other].hand # probe.b.pl[probe.other].hand

\* C31: two runs that differ only in a card another player holds send the
\* same state to a viewer as long as that card has not been played.
C31_ViewHidesOtherHands ==
  (probe.fn = "view" /\ StillHeld)
    => \A viewer \in Ids \ {probe.other} :
         Replicated(probe.a) = Replicated(probe.b)


\* player p leaves during trick play and at least two knocked-in players
\* remain
LeavesInTrickPlay(p) ==
  /\ InRoom(S, p) /\ ~InRoom(S', p)
  /\ roundState = "turns" /\ HandInProgress
  /\ Len(KnockedInIds(S')) >= 2

\* C32: when a player leaves during trick play and at least two knocked-in
\* players remain, the hand does not end, and the player whose turn it is
\* afterwards is knocked in and has no card in the current trick.
C32_ActorAfterLeave ==
  [][\A p \in Ids :
       LeavesInTrickPlay(p)
         => /\ roundState' # "end"
            /\ roundState' = "turns"
                 => /\ \E i \in 1..Len(KnockedInIds(S')) :
                         KnockedInIds(S')[i] = currentTurnPlayerId'
                    /\ \A i \in 1..Len(currentTrick') :
                         currentTrick'[i].playerId # currentTurnPlayerId']_vars


(***************************************************************************)
(* A room of one human and two bots: the human who created the room sits   *)
(* first and deals the first hand, the bots createBots added sit to the    *)
(* dealer's left and decide first.                                         *)
(***************************************************************************)
BotSetup ==
  [bots |-> {2, 3}, admin |-> 1, money |-> Money, decks |-> {1},
   leaves |-> 0, select |-> 0, autoReady |-> 0]

\* the room after the human has readied, the bots have readied on their
\* timers and shuffle 1 has been dealt
BotRoom ==
  LET r1 == ready(InitRoom(BotSetup), 1, TRUE)
      r2 == botReadyCallback(Fired(r1, 1), 2)
      r3 == botReadyCallback(Fired(r2, 1), 3)
      r4 == delayedRoundStart(Fired(r3, 1), Shuffle(1))
  IN startRoundCont(Fired(r4, 1))

InitBots ==
  /\ Start(BotRoom)
  /\ env = Env(BotSetup)
  /\ probe = NoProbe

\* the human readies, decides and plays; the bots act on their timers
NextBots ==
  \/ \E p \in Ids, keep \in BOOLEAN : KeepTrump(p, keep)
  \/ \E p \in Ids, in \in BOOLEAN : KnockIn(p, in)
  \/ \E p \in Ids : PlayCards(p)
  \/ \E p \in Ids : DealerGoSet(p)
  \/ \E i \in DOMAIN pend : InactivityTimeout(i)
  \/ \E i \in DOMAIN pend, a \in Ids : EndWithoutTricksDone(i, a)
  \/ \E i \in DOMAIN pend : BotDecisionCheck(i)
  \/ \E i \in DOMAIN pend, b \in Ids, shouldKnock \in BOOLEAN :
       BotKnock(i, b, shouldKnock)
  \/ \E i \in DOMAIN pend, b \in Ids, numToDiscard \in 0..2 :
       BotDiscard(i, b, numToDiscard)

SpecBots == InitBots /\ [][NextBots]_vars


\* C33: a bot's thinking timer that changes the room when it fires finds
\* the phase it was scheduled for and the bot as that phase's required
\* actor: a knock decision is applied in knock-in to the current knocker who
\* has not decided, a discard decision in discard-draw to the current
\* discarder.
C33_BotTimerStillDue ==
  [][\A i \in DOMAIN pend, b \in Ids :
       /\ \A shouldKnock \in BOOLEAN :
            (BotKnock(i, b, shouldKnock) /\ S' # Fired(S, i))
              => /\ roundState = "knock-in"
                 /\ currentKnockPlayerId = b
                 /\ ~pl[b].hasKnockDecision
       /\ \A numToDiscard \in 0..2 :
            (BotDiscard(i, b, numToDiscard) /\ S' # Fired(S, i))
              => /\ roundState = "discard-draw"
                 /\ currentDiscardPlayerId = b]_vars


\* C34: once the hand has entered end, the phase changes only to idle.
C34_EndLeadsToIdle ==
  [][roundState = "end" => roundState' \in {"end", "idle"}]_vars


\* what a decision leaves behind: phase, required actors, hands, deck, pot,
\* balances and the players' flags
Outcome(s) ==
  [roundState |-> s.roundState,
   currentKnockPlayerId |-> s.currentKnockPlayerId,
   currentDiscardPlayerId |-> s.currentDiscardPlayerId,
   currentTurnPlayerId |-> s.currentTurnPlayerId,
   pl |-> s.pl, deck |-> s.deck, trumpCard |-> s.trumpCard,
   potValue |-> s.potValue, nextRoundPotBonus |-> s.nextRoundPotBonus,
   currentTrick |-> s.currentTrick, completedTricks |-> s.completedTricks]

\* the room after a human client of seat b has sent the knock decision
AsHumanKnock(s, b, shouldKnock) ==
  Deliver(s, [kind |-> "knockIn", p |-> b, arg |-> shouldKnock])


\* C35: a bot's knock-in or pass, applied when its thinking timer fires,
\* leaves the room as the same decision sent by a human in that seat and
\* state would (phase, required actors, hands, deck, pot, balances, flags).
C35_BotKnockAsHuman ==
  \A i \in DOMAIN pend, b \in Ids, shouldKnock \in BOOLEAN :
    (/\ Due(i, "botKnock", b)
     /\ hasSpecialHand(pl[b].hand, trumpSuit) => shouldKnock)
      => Outcome(botKnockCallback(Fired(S, i), b, shouldKnock))
           = Outcome(AsHumanKnock(Fired(S, i), b, shouldKnock))


\* C36: when the special-hand pause ends and the hand is settled, the
\* special-hand winner has not gone set, has the outcome win and keeps the
\* balance that includes the pot.
C36_SpecialWinnerNotSet ==
  [][\A i \in DOMAIN pend, w \in Ids :
       (SpecialHandDone(i) /\ w = specialHandWinner)
         => /\ ~pl'[w].wentSet
            /\ pl'[w].roundOutcome = "win"
            /\ pl'[w].money = pl[w].money]_vars


\* C37: no player has two cards in the current trick.
C37_OneCardPerPlayer ==
  \A i, j \in DOMAIN currentTrick :
    i # j => currentTrick[i].playerId # currentTrick[j].playerId


\* p is in the room and takes part in the hand, knocked in where the phase
\* asks for it
ActorInHand(p, mustKnock) ==
  /\ InRoom(S, p)
  /\ pl[p].ready
  /\ mustKnock => pl[p].knockedIn

\* C38: in knock-in, discard-draw and turns the required-actor pointer of
\* the phase names a player who is in the room and takes part in the hand,
\* and who is knocked in for discard-draw and turns.
C38_ActorPointerValid ==
  /\ roundState = "knock-in" =>
       \E p \in Ids : p = currentKnockPlayerId /\ ActorInHand(p, FALSE)
  /\ roundState = "discard-draw" =>
       \E p \in Ids : p = currentDiscardPlayerId /\ ActorInHand(p, TRUE)
  /\ roundState = "turns" =>
       \E p \in Ids : p = currentTurnPlayerId /\ ActorInHand(p, TRUE)


(***************************************************************************)
(* Two hands in a row.  The first hand is dealt with the highest ante by   *)
(* the player in the third seat, so the poor player in seat 1 is a         *)
(* non-dealer; it is played and settled, the players ready again, and the  *)
(* second hand, which the player in seat 1 deals, is dealt.                *)
(***************************************************************************)
\* hands dealt in one run
MaxBalanceHands == 2

BalanceRoom ==
  LET s0 == AnteRoom(2, 15, 0)
      s1 == delayedRoundStart(Fired(s0, 1), Shuffle(1))
  IN startRoundCont(Fired(s1, 1))

InitBalance ==
  /\ Idle
  /\ probe = [fn |-> "balance", room |-> BalanceRoom]

\* a message of the first hand, or a ready message after it
ApplyHandIntent ==
  /\ probe.fn = "balance"
  /\ probe.room.hands < MaxBalanceHands
  /\ \E m \in Intents :
       /\ m.kind \notin {"selectCard", "discardDraw"}
       /\ m.kind = "ready" => m.arg
       /\ Accepts(probe.room, m)
       /\ m.kind = "ready" => ~probe.room.pl[m.p].ready
       /\ probe' = [probe EXCEPT !.room = Deliver(probe.room, m)]
  /\ RoomUnchanged

\* the callbacks of the delays of startRound, completeTrick,
\* handleSpecialHandWin, endRound and endRoundWithoutTricks
ApplyHandTimer ==
  /\ probe.fn = "balance"
  /\ \E i \in DOMAIN probe.room.pend, w \in Ids :
       LET s == Fired(probe.room, i)
           kind == probe.room.pend[i][1]
       IN /\ probe.room.pend[i][2] \in {NoId, w}
          /\ probe.room.pend[i][2] = NoId => w = probe.room.order[1]
          /\ kind \in {"dealing", "trick", "special", "end", "endWT"}
          /\ probe' = [probe EXCEPT !.room =
               CASE kind = "dealing" -> startRoundCont(s)
                 [] kind = "trick" -> completeTrickCont(s, w)
                 [] kind = "special" -> handleSpecialHandWinCont(s)
                 [] kind = "end" -> endRoundCont(s, w)
                 [] kind = "endWT" -> endRoundWithoutTricksCont(s, w)]
  /\ RoomUnchanged

\* the round-start countdown ends and the next hand is dealt
ApplyNextDeal ==
  /\ probe.fn = "balance"
  /\ probe.room.hands < MaxBalanceHands
  /\ \E i \in DOMAIN probe.room.pend :
       /\ probe.room.pend[i] = <<"start", NoId>>
       /\ probe' = [probe EXCEPT !.room =
            delayedRoundStart(Fired(probe.room, i), Shuffle(1))]
  /\ RoomUnchanged

NextBalance == ApplyHandIntent \/ ApplyHandTimer \/ ApplyNextDeal

SpecBalance == InitBalance /\ [][NextBalance]_vars

\* C39: every player's balance is at least 0, in the rooms of Spec and in
\* the two-hand runs.
C39_BalanceNeverNegative ==
  /\ \A p \in Ids : pl[p].money >= 0
  /\ probe.fn = "balance" => \A p \in Ids : probe.room.pl[p].money >= 0


(***************************************************************************)
(* Antes, pot and carry-over over two hands: an idle room in which any     *)
(* client may send any bet, the hand that is then dealt, its settlement    *)
(* and the next hand.                                                      *)
(***************************************************************************)
\* the highest amount a client sends as bet
MaxBetSent == 16

\* onMessage('bet') without the test against the allowed antes
MutBetAnyAmount(s, p, newBet) ==
  IF \/ s.roundState # "idle"
     \/ s.pl[p].ready
     \/ p # s.dealerId
  THEN s
  ELSE bet(s, p, newBet)


\* onMessage('bet')
onBet(s, p, newBet) ==
  IF \/ s.roundState # "idle"
     \/ s.pl[p].ready
     \/ newBet \notin allowedAntes
     \/ p # s.dealerId
  THEN s
  ELSE bet(s, p, newBet)

InitPot ==
  /\ Idle
  /\ probe = [fn |-> "balance", room |-> triggerNewRoundCheck(IdleRoom)]

ApplyBet ==
  /\ probe.fn = "balance"
  /\ \E p \in Ids, newBet \in 0..MaxBetSent :
       probe' = [probe EXCEPT !.room = onBet(probe.room, p, newBet)]
  /\ RoomUnchanged

NextPot == ApplyBet \/ ApplyHandIntent \/ ApplyHandTimer \/ ApplyNextDeal

SpecPot == InitPot /\ [][NextPot]_vars

\* antes, pot and carry-over of room s are multiples of 3
PotInThrees(s) ==
  /\ \A p \in Ids : s.pl[p].bet % 3 = 0
  /\ s.potValue % 3 = 0
  /\ s.nextRoundPotBonus % 3 = 0
  /\ 3 * (s.potValue \div 3) = s.potValue

\* the hand is settled in this step and p, with all three tricks, is paid
\* the pot
AllTricksPayPot(p) ==
  (/\ probe.room.roundState # "end"
   /\ probe'.room.roundState = "end"
   /\ probe'.room.pl[p].tricksWon = 3)
    => probe'.room.pl[p].money
         = probe.room.pl[p].money + probe'.room.potValue


\* C40: every player's ante, the pot and the carry-over are multiples of 3,
\* three times a third of the pot is the pot, and a player who holds all
\* three tricks when the hand is settled is paid exactly the pot.
C40_PotInThrees ==
  /\ [](probe.fn = "balance" => PotInThrees(probe.room))
  /\ [][\A p \in Ids : AllTricksPayPot(p)]_vars

\* a hand with an ante above the default, settled after three tricks that
\* one player has won
C40_Witness ==
  /\ probe.fn = "balance"
  /\ probe.room.roundState = "end"
  /\ Len(probe.room.completedTricks) = 3
  /\ probe.room.potValue > minPlayers * initialPlayerBet + dealerExtraAnte
  /\ \E p \in Ids : probe.room.pl[p].tricksWon = 3

=============================================================================
